---- MODULE Spec2Model ----
(***************************************************************************)
(* planmode CLI: the installer (installPackage / uninstallPackage /        *)
(* updatePackage), the lockfile store (planmode.lock), the import ledger   *)
(* (the managed section of CLAUDE.md) and the version resolver.            *)
(*                                                                         *)
(* Text is modelled as a sequence of tokens: CLAUDE.md is the sequence of  *)
(* its tokens with "\n" as the line separator, a version string "X.Y.Z"    *)
(* is the triple <<X, Y, Z>>, a range string is a record of its operator   *)
(* prefix and its version, a dependency string is <<name>> or              *)
(* <<name, "@", range>>.                                                   *)
(***************************************************************************)
EXTENDS Integers, Sequences, FiniteSets, TLC

\* ------------------------------------------------------------------ bounds
\* Number of top-level CLI invocations in one behaviour.
MaxOps == 2

\* Number of injected faults in one behaviour: failed fetches, failed or torn
\* file writes, terminated processes.
MaxFaults == 1

\* Depth of the installPackage call stack (the recursion itself is unbounded).
MaxDepth == 4

\* Length of the version list of a package's metadata.
MaxVersions == 3

\* Lines of a hand-written CLAUDE.md.
MaxLines == 3

\* The largest number in a version handed to satisfies on its own.
MaxPart == 2

\* ------------------------------------------------------------- text helpers
NL == "\n"

RECURSIVE JoinStr(_)
\* String concatenation of a sequence of string tokens.
JoinStr(toks) ==
  IF toks = <<>> THEN "" ELSE Head(toks) \o JoinStr(Tail(toks))

\* String.prototype.includes on token sequences.
Includes(s, sub) ==
  \E i \in 0..(Len(s) - Len(sub)) : SubSeq(s, i + 1, i + Len(sub)) = sub

\* Zero-based index of the first occurrence (String.prototype.indexOf), -1 if none.
IndexOf(s, sub) ==
  IF Includes(s, sub)
  THEN CHOOSE i \in 0..(Len(s) - Len(sub)) :
         /\ SubSeq(s, i + 1, i + Len(sub)) = sub
         /\ \A j \in 0..(i - 1) : SubSeq(s, j + 1, j + Len(sub)) # sub
  ELSE -1

\* String.prototype.replace with a string pattern: first occurrence only.
ReplaceFirst(s, sub, rep) ==
  LET i == IndexOf(s, sub) IN
  IF i < 0 THEN s
  ELSE SubSeq(s, 1, i) \o rep \o SubSeq(s, i + Len(sub) + 1, Len(s))

EndsWithNL(s) == Len(s) > 0 /\ s[Len(s)] = NL

RECURSIVE SplitNL(_)
\* String.prototype.split("\n"): always at least one (possibly empty) piece.
SplitNL(s) ==
  IF \A i \in 1..Len(s) : s[i] # NL THEN <<s>>
  ELSE LET i == CHOOSE k \in 1..Len(s) :
                  s[k] = NL /\ \A j \in 1..(k - 1) : s[j] # NL
       IN <<SubSeq(s, 1, i - 1)>> \o SplitNL(SubSeq(s, i + 1, Len(s)))

RECURSIVE JoinNL(_)
\* Array.prototype.join("\n").
JoinNL(lines) ==
  IF lines = <<>> THEN <<>>
  ELSE IF Len(lines) = 1 THEN lines[1]
  ELSE lines[1] \o <<NL>> \o JoinNL(Tail(lines))

IsSpace(t) == t \in {" ", "\t"}

RECURSIVE TrimLeft(_)
TrimLeft(s) ==
  IF s # <<>> /\ IsSpace(Head(s)) THEN TrimLeft(Tail(s)) ELSE s

RECURSIVE TrimRight(_)
TrimRight(s) ==
  IF s # <<>> /\ IsSpace(s[Len(s)]) THEN TrimRight(SubSeq(s, 1, Len(s) - 1)) ELSE s

\* String.prototype.trim.
Trim(s) == TrimRight(TrimLeft(s))

\* --------------------------------------------------------- version resolver
\* parseSemver: "X.Y.Z" -> {major, minor, patch}.
parseSemver(version) ==
  [major |-> version[1], minor |-> version[2], patch |-> version[3]]

\* A range string: its operator prefix ("" for an exact version) and its version.
RangeStr(prefix, version) == [prefix |-> prefix, v |-> version]

\* options.version left undefined.
NoVersion == RangeStr("undefined", <<0, 0, 0>>)

Star == RangeStr("*", <<0, 0, 0>>)

parseVersionRange(range) ==
  IF range.prefix = "*" THEN [operator |-> "any", major |-> 0, minor |-> 0, patch |-> 0]
  ELSE LET s == parseSemver(range.v) IN
       [operator |-> CASE range.prefix = "^" -> "caret"
                       [] range.prefix = "~" -> "tilde"
                       [] range.prefix = ">=" -> "gte"
                       [] OTHER -> "exact",
        major |-> s.major, minor |-> s.minor, patch |-> s.patch]

\* Mutant: the tilde case lets the minor version grow, as the caret case does.
satisfiesTildeAsCaret(version, range) ==
  LET v == parseSemver(version) IN
  CASE range.operator = "any" -> TRUE
    [] range.operator = "exact" ->
         v.major = range.major /\ v.minor = range.minor /\ v.patch = range.patch
    [] range.operator \in {"caret", "tilde"} ->
         IF v.major # range.major THEN FALSE
         ELSE IF v.minor > range.minor THEN TRUE
         ELSE IF v.minor = range.minor THEN v.patch >= range.patch
         ELSE FALSE
    [] range.operator = "gte" ->
         IF v.major > range.major THEN TRUE
         ELSE IF v.major < range.major THEN FALSE
         ELSE IF v.minor > range.minor THEN TRUE
         ELSE IF v.minor < range.minor THEN FALSE
         ELSE v.patch >= range.patch

satisfies(version, range) ==
  LET v == parseSemver(version) IN
  CASE range.operator = "any" -> TRUE
    [] range.operator = "exact" ->
         v.major = range.major /\ v.minor = range.minor /\ v.patch = range.patch
    [] range.operator = "caret" ->
         IF v.major # range.major THEN FALSE
         ELSE IF v.minor > range.minor THEN TRUE
         ELSE IF v.minor = range.minor THEN v.patch >= range.patch
         ELSE FALSE
    [] range.operator = "tilde" ->
         IF v.major # range.major THEN FALSE
         ELSE IF v.minor # range.minor THEN FALSE
         ELSE v.patch >= range.patch
    [] range.operator = "gte" ->
         IF v.major > range.major THEN TRUE
         ELSE IF v.major < range.major THEN FALSE
         ELSE IF v.minor > range.minor THEN TRUE
         ELSE IF v.minor < range.minor THEN FALSE
         ELSE v.patch >= range.patch

\* Digits of a version number, as the text of the version string has them.
Digits(n) == IF n < 10 THEN <<n>> ELSE <<n \div 10, n % 10>>

\* Mutant: the versions are compared as text.
compareVersionsAsText(a, b) ==
  LET ta == Digits(a[1]) \o <<-1>> \o Digits(a[2]) \o <<-1>> \o Digits(a[3])
      tb == Digits(b[1]) \o <<-1>> \o Digits(b[2]) \o <<-1>> \o Digits(b[3])
      diff == {i \in 1..Len(ta) : i > Len(tb) \/ ta[i] # tb[i]}
      first == CHOOSE i \in diff : \A j \in diff : i <= j
  IN IF diff = {} THEN Len(ta) - Len(tb)
     ELSE IF first > Len(tb) THEN 1
     ELSE ta[first] - tb[first]

compareVersions(a, b) ==
  LET va == parseSemver(a)
      vb == parseSemver(b)
  IN IF va.major # vb.major THEN va.major - vb.major
     ELSE IF va.minor # vb.minor THEN va.minor - vb.minor
     ELSE va.patch - vb.patch

\* versions.filter((v) => satisfies(v, range)): a new array.
Matching(versions, range) ==
  LET Keep(v) == satisfies(v, range) IN SelectSeq(versions, Keep)

\* Array.prototype.sort's insertion of v into the sorted array: after the
\* elements that do not compare greater (the sort is stable).
InsertSorted(sorted, v) ==
  LET n == Cardinality({i \in 1..Len(sorted) : compareVersions(sorted[i], v) <= 0})
  IN SubSeq(sorted, 1, n) \o <<v>> \o SubSeq(sorted, n + 1, Len(sorted))

RECURSIVE Sort(_)
\* array.sort(compareVersions).
Sort(array) ==
  IF array = <<>> THEN <<>>
  ELSE InsertSorted(Sort(SubSeq(array, 1, Len(array) - 1)), array[Len(array)])

\* The last element of versions.filter(satisfies).sort(compareVersions).
LastMatching(versions, range) ==
  LET matching == Sort(Matching(versions, range))
  IN matching[Len(matching)]

RECURSIVE Join(_, _)
\* array.join(separator)
Join(array, separator) ==
  IF Len(array) <= 1 THEN array
  ELSE <<Head(array), separator>> \o Join(Tail(array), separator)

\* The message of the error resolveVersion throws.
VersionNotFound(versionRange, versions) ==
  <<"Version '", versionRange, "' not found. Available: ">> \o Join(versions, ", ")

\* Mutant: an absent constraint is resolved as "*".
resolveVersionAbsentAsAny(metadata, versionRange) ==
  LET range == IF versionRange.prefix \in {"undefined", "latest"}
               THEN parseVersionRange(Star)
               ELSE parseVersionRange(versionRange)
  IN IF Len(Matching(metadata.versions, range)) = 0
     THEN [ok |-> FALSE, version |-> <<0, 0, 0>>, metadata |-> metadata,
           message |-> VersionNotFound(versionRange, metadata.versions)]
     ELSE [ok |-> TRUE, version |-> LastMatching(metadata.versions, range),
           metadata |-> metadata, message |-> <<>>]

\* resolveVersion on already fetched metadata: [ok, version, metadata], and
\* the message of the error when it throws.
resolveVersion(metadata, versionRange) ==
  IF versionRange.prefix \in {"undefined", "latest"}
  THEN [ok |-> TRUE, version |-> metadata.latest_version, metadata |-> metadata,
        message |-> <<>>]
  ELSE LET range == parseVersionRange(versionRange) IN
       IF Len(Matching(metadata.versions, range)) = 0
       THEN [ok |-> FALSE, version |-> <<0, 0, 0>>, metadata |-> metadata,
             message |-> VersionNotFound(versionRange, metadata.versions)]
       ELSE [ok |-> TRUE, version |-> LastMatching(metadata.versions, range),
             metadata |-> metadata, message |-> <<>>]

\* One character (or run of characters) of a dependency string.
Ch(c) == [c |-> c]

RECURSIVE JoinCh(_)
JoinCh(toks) ==
  IF toks = <<>> THEN "" ELSE Head(toks).c \o JoinCh(Tail(toks))

\* The dependency strings "name" and "name@range".
Dep(name) == <<Ch(name)>>
DepAt(name, range) == <<Ch(name), Ch("@"), range>>

\* Mutant: a leading "@" splits the string too.
parseDepStringLeadingAt(dep) ==
  LET ats == {i \in 1..Len(dep) : dep[i] = Ch("@")}
      atIndex == IF ats = {} THEN -1
                 ELSE (CHOOSE i \in ats : \A j \in ats : j <= i) - 1
  IN IF atIndex >= 0
     THEN [name |-> JoinCh(SubSeq(dep, 1, atIndex)), range |-> dep[atIndex + 2]]
     ELSE [name |-> JoinCh(dep), range |-> Star]

\* parseDepString: split on the last "@" unless it is the first character.
parseDepString(dep) ==
  LET ats == {i \in 1..Len(dep) : dep[i] = Ch("@")}
      atIndex == IF ats = {} THEN -1
                 ELSE (CHOOSE i \in ats : \A j \in ats : j <= i) - 1
  IN IF atIndex > 0
     THEN [name |-> JoinCh(SubSeq(dep, 1, atIndex)), range |-> dep[atIndex + 2]]
     ELSE [name |-> JoinCh(dep), range |-> Star]

\* ------------------------------------------------------------ import ledger
PLANMODE_SECTION == <<"# Planmode">>

importLine(planName) == <<"-", " ", "@plans/", planName, ".md">>

\* CLAUDE.md: whether it exists, and its content.
NoDoc == [exists |-> FALSE, content |-> <<>>]
DocOf(content) == [exists |-> TRUE, content |-> content]

\* Mutant: the import is added without looking for an existing one.
addImportUnchecked(doc, planName) ==
  IF ~doc.exists
  THEN DocOf(PLANMODE_SECTION \o <<NL>> \o importLine(planName) \o <<NL>>)
  ELSE IF Includes(doc.content, PLANMODE_SECTION)
  THEN DocOf(ReplaceFirst(doc.content, PLANMODE_SECTION,
                          PLANMODE_SECTION \o <<NL>> \o importLine(planName)))
  ELSE LET separator == IF EndsWithNL(doc.content) THEN <<NL>> ELSE <<NL, NL>>
       IN DocOf(doc.content \o separator \o PLANMODE_SECTION \o <<NL>>
                \o importLine(planName) \o <<NL>>)

\* addImport on the document it has read: the document it leaves.
addImport(doc, planName) ==
  IF ~doc.exists
  THEN DocOf(PLANMODE_SECTION \o <<NL>> \o importLine(planName) \o <<NL>>)
  ELSE IF Includes(doc.content, importLine(planName)) THEN doc
  ELSE IF Includes(doc.content, PLANMODE_SECTION)
  THEN DocOf(ReplaceFirst(doc.content, PLANMODE_SECTION,
                          PLANMODE_SECTION \o <<NL>> \o importLine(planName)))
  ELSE LET separator == IF EndsWithNL(doc.content) THEN <<NL>> ELSE <<NL, NL>>
       IN DocOf(doc.content \o separator \o PLANMODE_SECTION \o <<NL>>
                \o importLine(planName) \o <<NL>>)

RECURSIVE DropTrimmedInverted(_, _)
\* Mutant: the filter keeps the lines it should drop.
DropTrimmedInverted(lines, line) ==
  IF lines = <<>> THEN <<>>
  ELSE IF Trim(Head(lines)) # line THEN DropTrimmedInverted(Tail(lines), line)
  ELSE <<Head(lines)>> \o DropTrimmedInverted(Tail(lines), line)

RECURSIVE DropTrimmed(_, _)
\* lines.filter((line) => line.trim() !== importLine)
DropTrimmed(lines, line) ==
  IF lines = <<>> THEN <<>>
  ELSE IF Trim(Head(lines)) = line THEN DropTrimmed(Tail(lines), line)
  ELSE <<Head(lines)>> \o DropTrimmed(Tail(lines), line)

removeImport(doc, planName) ==
  IF ~doc.exists THEN doc
  ELSE DocOf(JoinNL(DropTrimmed(SplitNL(doc.content), importLine(planName))))

\* One line against /^-\s*@plans\/(.+)\.md$/ : the captured tokens, <<>> if no match.
ImportMatch(line) ==
  IF Len(line) >= 4 /\ line[1] = "-" /\ line[Len(line)] = ".md"
  THEN LET rest == TrimLeft(Tail(line)) IN
       IF Len(rest) >= 3 /\ rest[1] = "@plans/"
       THEN SubSeq(rest, 2, Len(rest) - 1) ELSE <<>>
  ELSE <<>>

RECURSIVE ImportsOf(_)
ImportsOf(lines) ==
  IF lines = <<>> THEN <<>>
  ELSE LET m == ImportMatch(Head(lines)) IN
       (IF m = <<>> THEN <<>> ELSE <<JoinStr(m)>>) \o ImportsOf(Tail(lines))

listImports(doc) ==
  IF ~doc.exists THEN <<>> ELSE ImportsOf(SplitNL(doc.content))

\* ----------------------------------------------------------- lockfile store
EmptyLockfile == [lockfile_version |-> 1, packages |-> [n \in {} |-> 0]]

\* YAML text of a lockfile: the version line and one block per package.
stringify(lockfile) ==
  [version_line |-> lockfile.lockfile_version,
   blocks |-> {<<n, lockfile.packages[n]>> : n \in DOMAIN lockfile.packages}]

\* Mutant: the package blocks are not read back.
parseVersionLineOnly(raw) ==
  [lockfile_version |-> raw.version_line, packages |-> [n \in {} |-> 0]]

parse(raw) ==
  [lockfile_version |-> raw.version_line,
   packages |-> [n \in {b[1] : b \in raw.blocks} |->
                   (CHOOSE b \in raw.blocks : b[1] = n)[2]]]

\* planmode.lock: absent, a YAML document, or unparseable bytes.
NoLockFile == [kind |-> "absent", raw |-> stringify(EmptyLockfile)]
CorruptLockFile == [kind |-> "corrupt", raw |-> stringify(EmptyLockfile)]

\* planmode.lock holding the empty YAML document, and one holding a YAML
\* mapping that has no packages key ("lockfile_version: 1" alone).
NullLockFile == [kind |-> "null", raw |-> stringify(EmptyLockfile)]
MappingLockFile == [kind |-> "mapping", raw |-> stringify(EmptyLockfile)]

\* Mutant: bytes that cannot be parsed are read as the lockfile they once were.
readLockfileLenient(file) ==
  IF file.kind \in {"yaml", "corrupt"} THEN parse(file.raw)
  ELSE IF file.kind = "mapping" THEN [lockfile_version |-> file.raw.version_line]
  ELSE EmptyLockfile

\* readLockfile: the parsed document as it is, the empty structure when the
\* file cannot be read or parsed or the document is null.
readLockfile(file) ==
  IF file.kind = "yaml" THEN parse(file.raw)
  ELSE IF file.kind = "mapping" THEN [lockfile_version |-> file.raw.version_line]
  ELSE EmptyLockfile

writeLockfile(lockfile) == [kind |-> "yaml", raw |-> stringify(lockfile)]

\* Mutant: the assignment replaces the whole packages object.
SetPackageAlone(lockfile, packageName, entry) ==
  [lockfile EXCEPT !.packages = [n \in {packageName} |-> entry]]

\* lockfile.packages[packageName] = entry
SetPackage(lockfile, packageName, entry) ==
  [lockfile EXCEPT !.packages =
     [n \in DOMAIN lockfile.packages \cup {packageName} |->
        IF n = packageName THEN entry ELSE lockfile.packages[n]]]

\* delete lockfile.packages[packageName]
DeletePackage(lockfile, packageName) ==
  [lockfile EXCEPT !.packages =
     [n \in DOMAIN lockfile.packages \ {packageName} |-> lockfile.packages[n]]]

\* addToLockfile on the structure it has read: the file it writes.
addToLockfile(lockfile, packageName, entry) ==
  writeLockfile(SetPackage(lockfile, packageName, entry))

removeFromLockfile(lockfile, packageName) ==
  writeLockfile(DeletePackage(lockfile, packageName))

IsLocked(file, packageName) == packageName \in DOMAIN readLockfile(file).packages

getLockedVersion(file, packageName) == readLockfile(file).packages[packageName]

\* getDependents: every other recorded package (the list is compared as a set).
getDependents(file, packageName) ==
  {name \in DOMAIN readLockfile(file).packages : name # packageName}

\* ------------------------------------------------------ paths and contents
getInstallDir(type) ==
  CASE type = "plan" -> "plans"
    [] type = "rule" -> ".claude/rules"
    [] type = "prompt" -> "prompts"

getInstallPath(name, type) == <<getInstallDir(type), name>>

\* sha256 over the content: a digest that identifies the content.
contentHash(content) == [alg |-> "sha256", of |-> content]

\* File content: the rendered content of a package version, or what a torn
\* write left of it.
Content(name, version, values) == [name |-> name, version |-> version, values |-> values]
Torn(content) == [content EXCEPT !.values = "torn"]

FileExists(fs, path) == path \in DOMAIN fs

WriteFile(fs, path, content) ==
  [q \in DOMAIN fs \cup {path} |-> IF q = path THEN content ELSE fs[q]]

Unlink(fs, path) == [q \in DOMAIN fs \ {path} |-> fs[q]]

\* ------------------------------------------------------------ the registry
\* A variable declaration of a manifest (at most one is modelled).
NoVariables == [declared |-> FALSE, required |-> FALSE, hasDefault |-> FALSE]
RequiredVariable == [declared |-> TRUE, required |-> TRUE, hasDefault |-> FALSE]
DefaultedVariable == [declared |-> TRUE, required |-> FALSE, hasDefault |-> TRUE]

\* planmode.yaml of one version: parses is FALSE for YAML that is not an object;
\* source is "content", "content_file" or "none".
Manifest(type, rules, plans, variables, source, parses) ==
  [type |-> type, dependencies |-> [rules |-> rules, plans |-> plans],
   variables |-> variables, source |-> source, parses |-> parses]

V100 == <<1, 0, 0>>
V110 == <<1, 1, 0>>
V120 == <<1, 2, 0>>
V010 == <<0, 1, 0>>
V020 == <<0, 2, 0>>
V200 == <<2, 0, 0>>

\* The registry and the tagged repositories behind it: per package the
\* metadata.json (latest_version, versions) and the manifest of each version.
RegMain ==
  [app |->
     [latest_version |-> V110, versions |-> <<V100, V110>>,
      manifests |-> [v \in {V100, V110} |->
         Manifest("plan", <<DepAt("style", RangeStr("^", V100))>>, <<Dep("base")>>,
                  NoVariables, "content_file", TRUE)]],
   base |->
     [latest_version |-> V100, versions |-> <<V100>>,
      manifests |-> [v \in {V100} |->
         Manifest("plan", <<DepAt("style", RangeStr("", V100))>>, <<>>,
                  NoVariables, "content", TRUE)]],
   style |->
     [latest_version |-> V120, versions |-> <<V100, V120>>,
      manifests |-> [v \in {V100, V120} |->
         Manifest("rule", <<>>, <<>>,
                  IF v = V120 THEN DefaultedVariable ELSE NoVariables, "content", TRUE)]],
   tmpl |->
     [latest_version |-> V100, versions |-> <<V010, V020, V100>>,
      manifests |-> [v \in {V010, V020, V100} |->
         IF v = V010 THEN Manifest("prompt", <<>>, <<>>, NoVariables, "content", FALSE)
         ELSE IF v = V020 THEN Manifest("prompt", <<>>, <<>>, NoVariables, "none", TRUE)
         ELSE Manifest("prompt", <<>>, <<>>, RequiredVariable, "content_file", TRUE)]]]

Registries == {RegMain}

\* A registry whose packages declare each other as dependencies: loopa and
\* loopb with a version constraint on both declarations, ringa and ringb with
\* none, mixa with one on mixb while mixb declares mixa without.  top and mid
\* both declare shared, top pinned to 1.0.0 and mid as ^1.1.0.
RegCycle ==
  [top |->
     [latest_version |-> V100, versions |-> <<V100>>,
      manifests |-> [v \in {V100} |->
         Manifest("plan", <<DepAt("shared", RangeStr("", V100))>>, <<Dep("mid")>>,
                  NoVariables, "content", TRUE)]],
   mid |->
     [latest_version |-> V100, versions |-> <<V100>>,
      manifests |-> [v \in {V100} |->
         Manifest("plan", <<DepAt("shared", RangeStr("^", V110))>>, <<>>,
                  NoVariables, "content", TRUE)]],
   shared |->
     [latest_version |-> V120, versions |-> <<V100, V120>>,
      manifests |-> [v \in {V100, V120} |->
         Manifest("rule", <<>>, <<>>, NoVariables, "content", TRUE)]],
   loopa |->
     [latest_version |-> V100, versions |-> <<V100>>,
      manifests |-> [v \in {V100} |->
         Manifest("plan", <<DepAt("loopb", RangeStr("^", V100))>>, <<>>,
                  NoVariables, "content", TRUE)]],
   loopb |->
     [latest_version |-> V100, versions |-> <<V100>>,
      manifests |-> [v \in {V100} |->
         Manifest("rule", <<DepAt("loopa", RangeStr("^", V100))>>, <<>>,
                  NoVariables, "content", TRUE)]],
   ringa |->
     [latest_version |-> V100, versions |-> <<V100>>,
      manifests |-> [v \in {V100} |->
         Manifest("plan", <<>>, <<Dep("ringb")>>, NoVariables, "content", TRUE)]],
   ringb |->
     [latest_version |-> V100, versions |-> <<V100>>,
      manifests |-> [v \in {V100} |->
         Manifest("plan", <<>>, <<Dep("ringa")>>, NoVariables, "content", TRUE)]],
   mixa |->
     [latest_version |-> V100, versions |-> <<V100>>,
      manifests |-> [v \in {V100} |->
         Manifest("rule", <<DepAt("mixb", RangeStr("", V100))>>, <<>>,
                  NoVariables, "content", TRUE)]],
   mixb |->
     [latest_version |-> V100, versions |-> <<V100>>,
      manifests |-> [v \in {V100} |->
         Manifest("rule", <<Dep("mixa")>>, <<>>, NoVariables, "content", TRUE)]]]

\* source.repository / source.tag / source.sha of versions/<version>.json.
VersionMeta(name, version) ==
  [repository |-> <<"github.com/planmode", name>>,
   tag |-> <<"v", version>>,
   sha |-> <<"sha", name, version>>]

\* collectVariableValues for the (single) declared variable: [ok, values].
collectVariableValues(def, provided) ==
  IF provided THEN [ok |-> TRUE, values |-> "provided"]
  ELSE IF def.hasDefault THEN [ok |-> TRUE, values |-> "default"]
  ELSE IF def.required THEN [ok |-> FALSE, values |-> "missing"]
  ELSE [ok |-> TRUE, values |-> "empty"]

\* ---------------------------------------------------------------- the state
VARIABLES
  registry,   \* the remote registry (read-only input)
  lockFile,   \* planmode.lock in the project directory
  claudeMd,   \* CLAUDE.md in the project directory
  files,      \* the content files of the project directory: path -> content
  stack,      \* per CLI process: the call stack of installer calls in progress
  result,     \* per CLI process: how its last invocation ended
  obs,        \* per CLI process: what its current invocation has done so far
  prev,       \* the invocation that ended last: request, outcome, state it began in
  clean,      \* every invocation so far has ended in success
  nops,       \* number of invocations started
  nfaults,    \* number of faults injected
  call        \* the last call of a function that changes nothing: name, arguments, result

vars == <<registry, lockFile, claudeMd, files, stack, result, obs, prev, clean, nops,
          nfaults, call>>

\* The environment may inject one more fault.
MayFail == nfaults < MaxFaults

\* Outcomes of a network fetch.
Net == {"ok"} \cup (IF MayFail THEN {"fails"} ELSE {})

\* A step that injects a fault counts it.
Fault(injected) == nfaults' = IF injected THEN nfaults + 1 ELSE nfaults

persist == <<lockFile, claudeMd, files>>

Procs == {1, 2}

\* No CLI process is inside an invocation.
Idle == \A p \in Procs : stack[p] = <<>>

\* The persisted state of the project directory.
Persist == [lock |-> lockFile, doc |-> claudeMd, files |-> files]

NoContent == Content("", <<0, 0, 0>>, "none")

NoEntry ==
  [version |-> <<0, 0, 0>>, type |-> "none", source |-> <<"", "">>,
   tag |-> <<"", <<0, 0, 0>>>>, sha |-> <<"", "", <<0, 0, 0>>>>,
   content_hash |-> contentHash(NoContent), installed_to |-> <<"", "">>]

NoManifest == Manifest("none", <<>>, <<>>, NoVariables, "none", FALSE)

\* A request: the CLI command and its options.
Request(op, name, version, forceRule, variables) ==
  [op |-> op, name |-> name, version |-> version, forceRule |-> forceRule,
   variables |-> variables]

NoRequest == Request("none", "", NoVersion, FALSE, FALSE)

\* The install commands a user gives: package (one is in no registry),
\* --version, --rule, and whether a value is provided for the package's variable.
InstallRequests ==
  {Request("install", "app", NoVersion, FALSE, FALSE),
   Request("install", "app", RangeStr("", V100), TRUE, FALSE),
   Request("install", "app", RangeStr("", V200), FALSE, FALSE),
   Request("install", "style", NoVersion, FALSE, FALSE),
   Request("install", "style", RangeStr("", V100), FALSE, FALSE),
   Request("install", "tmpl", NoVersion, FALSE, FALSE),
   Request("install", "tmpl", NoVersion, FALSE, TRUE),
   Request("install", "tmpl", RangeStr("", V010), FALSE, FALSE),
   Request("install", "tmpl", RangeStr("", V020), FALSE, FALSE),
   Request("install", "ghost", NoVersion, FALSE, FALSE)}

\* The packages a user asks to uninstall or to update.
UninstallNames == {"app", "base", "style"}
UpdateNames == {"app", "style"}

NoCall == [fn |-> "none", args |-> <<>>, out |-> <<>>]

NoResult == [status |-> "none", error |-> "none", value |-> "void"]

NoObs ==
  [req |-> NoRequest, before |-> [lock |-> NoLockFile, doc |-> NoDoc, files |-> [q \in {} |-> 0]],
   last |-> [req |-> NoRequest, status |-> "none",
             before |-> [lock |-> NoLockFile, doc |-> NoDoc, files |-> [q \in {} |-> 0]]],
   fetched |-> FALSE, wrote |-> FALSE, warnings |-> {}, depError |-> "none"]

\* One activation of installPackage / uninstallPackage / updatePackage: its
\* arguments, its position and its local variables.
Frame(kind, name, version, forceRule, variables, isDep) ==
  [kind |-> kind, pc |-> "locked", name |-> name, version |-> version,
   forceRule |-> forceRule, variables |-> variables, isDep |-> isDep,
   locked |-> NoEntry, resolved |-> <<0, 0, 0>>, manifest |-> NoManifest,
   content |-> NoContent, type |-> "none", installPath |-> <<"", "">>,
   existed |-> FALSE, existing |-> NoContent, warned |-> FALSE,
   seenDoc |-> NoDoc, seenLock |-> EmptyLockfile, depIdx |-> 1,
   before |-> Persist]

Top(p) == stack[p][Len(stack[p])]

Running(p, kind, pc) ==
  /\ stack[p] # <<>>
  /\ Top(p).kind = kind
  /\ Top(p).pc = pc

\* The stack with its top frame replaced.
WithTop(p, f) == [stack EXCEPT ![p] = [@ EXCEPT ![Len(@)] = f]]

\* A call: the caller's frame is updated and the callee's frame pushed.
Call(p, caller, callee) ==
  [stack EXCEPT ![p] = [@ EXCEPT ![Len(@)] = caller] \o <<callee>>]

Init ==
  /\ registry \in Registries
  /\ lockFile = NoLockFile
  /\ claudeMd = NoDoc
  /\ files = [q \in {} |-> 0]
  /\ stack = [p \in Procs |-> <<>>]
  /\ result = [p \in Procs |-> NoResult]
  /\ obs = [p \in Procs |-> NoObs]
  /\ prev = [req |-> NoRequest, status |-> "none", before |-> NoObs.before]
  /\ clean = TRUE
  /\ nops = 0
  /\ nfaults = 0
  /\ call = NoCall

\* ------------------------------------------------------ returns and throws
\* The top activation returns: to its caller, or the invocation ends in success.
Return(p, value) ==
  /\ stack' = [stack EXCEPT ![p] = SubSeq(@, 1, Len(@) - 1)]
  /\ IF Len(stack[p]) = 1
     THEN /\ result' = [result EXCEPT ![p] = [status |-> "ok", error |-> "none", value |-> value]]
          /\ prev' = [req |-> obs[p].req, status |-> "ok", before |-> obs[p].before]
     ELSE UNCHANGED <<result, prev>>
  /\ UNCHANGED clean

\* Mutant: the dependency loop catches the error of a dependency and goes on
\* with the next one.
RaiseCaughtByLoop(p, e, o) ==
  /\ obs' = [obs EXCEPT ![p] = [o EXCEPT !.depError = IF Top(p).isDep THEN e ELSE @]]
  /\ IF Top(p).isDep
     THEN /\ stack' = [stack EXCEPT ![p] = SubSeq(@, 1, Len(@) - 1)]
          /\ UNCHANGED <<result, prev, clean>>
     ELSE /\ stack' = [stack EXCEPT ![p] = <<>>]
          /\ result' = [result EXCEPT ![p] = [status |-> "error", error |-> e, value |-> "void"]]
          /\ prev' = [req |-> obs[p].req, status |-> "error", before |-> obs[p].before]
          /\ clean' = FALSE

\* The top activation throws e: no caller catches, every activation of the
\* invocation is abandoned and the invocation ends with e.  o is obs[p] as the
\* throwing step leaves it.
Raise(p, e, o) ==
  /\ stack' = [stack EXCEPT ![p] = <<>>]
  /\ result' = [result EXCEPT ![p] = [status |-> "error", error |-> e, value |-> "void"]]
  /\ obs' = [obs EXCEPT ![p] = [o EXCEPT !.depError = IF Top(p).isDep THEN e ELSE @]]
  /\ prev' = [req |-> obs[p].req, status |-> "error", before |-> obs[p].before]
  /\ clean' = FALSE

\* The process is terminated between two steps.
Kill(p) ==
  /\ stack[p] # <<>>
  /\ MayFail
  /\ Fault(TRUE)
  /\ stack' = [stack EXCEPT ![p] = <<>>]
  /\ result' = [result EXCEPT ![p] = [status |-> "killed", error |-> "none", value |-> "void"]]
  /\ prev' = [req |-> obs[p].req, status |-> "killed", before |-> obs[p].before]
  /\ clean' = FALSE
  /\ UNCHANGED <<registry, call, persist, obs, nops>>

\* ------------------------------------------------------------ invocations
Start(p, req, frame) ==
  /\ stack[p] = <<>>
  /\ nops < MaxOps
  /\ nops' = nops + 1
  /\ stack' = [stack EXCEPT ![p] = <<frame>>]
  /\ result' = [result EXCEPT ![p] = NoResult]
  /\ obs' = [obs EXCEPT ![p] = [NoObs EXCEPT !.req = req, !.before = Persist,
                                               !.last = prev]]
  /\ UNCHANGED <<registry, call, persist, prev, clean, nfaults>>

\* planmode install <name> [--version v] [--rule] [variables]
StartInstall(p, name, version, forceRule, variables) ==
  Start(p, Request("install", name, version, forceRule, variables),
        Frame("install", name, version, forceRule, variables, FALSE))

\* planmode uninstall <name>
StartUninstall(p, name) ==
  Start(p, Request("uninstall", name, NoVersion, FALSE, FALSE),
        Frame("uninstall", name, NoVersion, FALSE, FALSE, FALSE))

\* planmode update <name>
StartUpdate(p, name) ==
  Start(p, Request("update", name, NoVersion, FALSE, FALSE),
        Frame("update", name, NoVersion, FALSE, FALSE, FALSE))

\* ------------------------------------------------------------ installPackage
\* Mutant: a recorded package is never installed again (a cycle guard).
InstallLockedAlways(p) ==
  /\ Running(p, "install", "locked")
  /\ LET f == Top(p) IN
     IF IsLocked(lockFile, f.name)
     THEN /\ Return(p, "void")
          /\ UNCHANGED obs
     ELSE /\ stack' = WithTop(p, [f EXCEPT !.pc = "resolve"])
          /\ UNCHANGED <<result, obs, prev, clean>>
  /\ UNCHANGED <<registry, call, persist, nops, nfaults>>

\* Mutant: the check compares the locked version with the version asked for.
InstallLockedSameVersion(p) ==
  /\ Running(p, "install", "locked")
  /\ LET f == Top(p) IN
     IF /\ IsLocked(lockFile, f.name)
        /\ f.version = RangeStr("", getLockedVersion(lockFile, f.name).version)
     THEN /\ Return(p, "void")
          /\ UNCHANGED obs
     ELSE /\ stack' = WithTop(p, [f EXCEPT !.pc = "resolve"])
          /\ UNCHANGED <<result, obs, prev, clean>>
  /\ UNCHANGED <<registry, call, persist, nops, nfaults>>

\* Mutant: a locked version that meets the constraint asked for is kept.
InstallLockedSatisfied(p) ==
  /\ Running(p, "install", "locked")
  /\ LET f == Top(p) IN
     IF /\ IsLocked(lockFile, f.name)
        /\ \/ f.version = NoVersion
           \/ satisfies(getLockedVersion(lockFile, f.name).version,
                        parseVersionRange(f.version))
     THEN /\ Return(p, "void")
          /\ UNCHANGED obs
     ELSE /\ stack' = WithTop(p, [f EXCEPT !.pc = "resolve"])
          /\ UNCHANGED <<result, obs, prev, clean>>
  /\ UNCHANGED <<registry, call, persist, nops, nfaults>>

\* Mutant: no lockfile check at all.
InstallLockedNever(p) ==
  /\ Running(p, "install", "locked")
  /\ stack' = WithTop(p, [Top(p) EXCEPT !.pc = "resolve"])
  /\ UNCHANGED <<registry, call, persist, result, obs, prev, clean, nops, nfaults>>

\* "Check lockfile first": return at once when locked and no version was asked.
InstallLocked(p) ==
  /\ Running(p, "install", "locked")
  /\ LET f == Top(p) IN
     IF IsLocked(lockFile, f.name) /\ f.version = NoVersion
     THEN /\ Return(p, "void")
          /\ UNCHANGED obs
     ELSE /\ stack' = WithTop(p, [f EXCEPT !.pc = "resolve"])
          /\ UNCHANGED <<result, obs, prev, clean>>
  /\ UNCHANGED <<registry, call, persist, nops, nfaults>>

\* resolveVersion (fetchPackageMetadata, then the choice of the version) and
\* fetchVersionMetadata.
InstallResolve(p) ==
  /\ Running(p, "install", "resolve")
  /\ LET f == Top(p)
         o == [obs[p] EXCEPT !.fetched = TRUE]
     IN \E net \in Net :
          /\ Fault(net = "fails")
          /\ IF net = "fails" THEN Raise(p, "NetworkFailure", o)
             ELSE IF f.name \notin DOMAIN registry THEN Raise(p, "PackageNotFound", o)
             ELSE LET r == resolveVersion(registry[f.name], f.version) IN
                  IF ~r.ok \/ r.version \notin DOMAIN registry[f.name].manifests
                  THEN Raise(p, "VersionNotFound", o)
                  ELSE /\ stack' = WithTop(p, [f EXCEPT !.pc = "fetch", !.resolved = r.version])
                       /\ obs' = [obs EXCEPT ![p] = o]
                       /\ UNCHANGED <<result, prev, clean>>
  /\ UNCHANGED <<registry, call, persist, nops>>

\* fetchFileAtTag(planmode.yaml), parseManifest, and the content (inline or
\* fetched from content_file).
InstallFetch(p) ==
  /\ Running(p, "install", "fetch")
  /\ LET f == Top(p)
         m == registry[f.name].manifests[f.resolved]
     IN \E net \in Net :
          /\ Fault(net = "fails")
          /\ IF net = "fails" THEN Raise(p, "NetworkFailure", obs[p])
             ELSE IF ~m.parses THEN Raise(p, "InvalidManifest", obs[p])
             ELSE IF m.source = "none" THEN Raise(p, "NoContent", obs[p])
             ELSE /\ stack' = WithTop(p, [f EXCEPT !.pc = "render", !.manifest = m])
                  /\ UNCHANGED <<result, obs, prev, clean>>
  /\ UNCHANGED <<registry, call, persist, nops>>

\* Mutant: the fetched content is placed before the variables are collected.
InstallRenderAfterPlacing(p) ==
  /\ Running(p, "install", "render")
  /\ LET f == Top(p)
         cv == IF f.manifest.variables.declared
               THEN collectVariableValues(f.manifest.variables, f.variables)
               ELSE [ok |-> TRUE, values |-> "static"]
         type == IF f.forceRule THEN "rule" ELSE f.manifest.type
     IN /\ files' = WriteFile(files, getInstallPath(f.name, type),
                              Content(f.name, f.resolved, "static"))
        /\ IF ~cv.ok THEN Raise(p, "MissingVariable", obs[p])
           ELSE /\ stack' = WithTop(p, [f EXCEPT !.pc = "conflict",
                                          !.content = Content(f.name, f.resolved, cv.values),
                                          !.type = type,
                                          !.installPath = getInstallPath(f.name, type)])
                /\ UNCHANGED <<result, obs, prev, clean>>
  /\ UNCHANGED <<registry, call, lockFile, claudeMd, nops, nfaults>>

\* Mutant: the type is the manifest's, with or without the override.
InstallRenderManifestType(p) ==
  /\ Running(p, "install", "render")
  /\ LET f == Top(p)
         cv == IF f.manifest.variables.declared
               THEN collectVariableValues(f.manifest.variables, f.variables)
               ELSE [ok |-> TRUE, values |-> "static"]
         type == f.manifest.type
     IN IF ~cv.ok THEN Raise(p, "MissingVariable", obs[p])
        ELSE /\ stack' = WithTop(p, [f EXCEPT !.pc = "conflict",
                                       !.content = Content(f.name, f.resolved, cv.values),
                                       !.type = type,
                                       !.installPath = getInstallPath(f.name, type)])
             /\ UNCHANGED <<result, obs, prev, clean>>
  /\ UNCHANGED <<registry, call, persist, nops, nfaults>>

\* "Process variables if templated", then type and install path.
InstallRender(p) ==
  /\ Running(p, "install", "render")
  /\ LET f == Top(p)
         cv == IF f.manifest.variables.declared
               THEN collectVariableValues(f.manifest.variables, f.variables)
               ELSE [ok |-> TRUE, values |-> "static"]
         type == IF f.forceRule THEN "rule" ELSE f.manifest.type
     IN IF ~cv.ok THEN Raise(p, "MissingVariable", obs[p])
        ELSE /\ stack' = WithTop(p, [f EXCEPT !.pc = "conflict",
                                       !.content = Content(f.name, f.resolved, cv.values),
                                       !.type = type,
                                       !.installPath = getInstallPath(f.name, type)])
             /\ UNCHANGED <<result, obs, prev, clean>>
  /\ UNCHANGED <<registry, call, persist, nops, nfaults>>

\* Mutant: warns whenever the file exists.
ConflictWarnsOnExisting(fs, path, content) == FileExists(fs, path)

\* "Check for conflicts": whether the step warns "Overwriting ...".
ConflictWarns(fs, path, content) ==
  /\ FileExists(fs, path)
  /\ contentHash(fs[path]) # contentHash(content)

InstallConflictCheck(p) ==
  /\ Running(p, "install", "conflict")
  /\ LET f == Top(p)
         warns == ConflictWarns(files, f.installPath, f.content)
     IN /\ stack' = WithTop(p, [f EXCEPT !.pc = "write", !.warned = warns,
                                  !.existed = FileExists(files, f.installPath),
                                  !.existing = IF FileExists(files, f.installPath)
                                               THEN files[f.installPath] ELSE NoContent])
        /\ obs' = [obs EXCEPT ![p].warnings =
                     IF warns THEN @ \cup {f.installPath} ELSE @]
  /\ UNCHANGED <<registry, call, persist, result, prev, clean, nops, nfaults>>

\* Mutant: the hash is taken of the content before the variables are rendered.
LockEntryOfUnrendered(name, version, type, content, installPath) ==
  LET meta == VersionMeta(name, version) IN
  [version |-> version, type |-> type, source |-> meta.repository,
   tag |-> meta.tag, sha |-> meta.sha,
   content_hash |-> contentHash([content EXCEPT !.values = "static"]),
   installed_to |-> installPath]

\* "Update lockfile": the entry of the package being installed.
LockEntry(name, version, type, content, installPath) ==
  LET meta == VersionMeta(name, version) IN
  [version |-> version, type |-> type, source |-> meta.repository,
   tag |-> meta.tag, sha |-> meta.sha, content_hash |-> contentHash(content),
   installed_to |-> installPath]

EntryOf(f) == LockEntry(f.name, f.resolved, f.type, f.content, f.installPath)

\* Mutant: the Lockfile entry is recorded before the file is written.
InstallWriteAfterLock(p) ==
  /\ Running(p, "install", "write")
  /\ LET f == Top(p) IN
     \E outcome \in {"written"} \cup (IF MayFail THEN {"throws", "torn"} ELSE {}) :
       /\ Fault(outcome # "written")
       /\ lockFile' = addToLockfile(readLockfile(lockFile), f.name, EntryOf(f))
       /\ CASE outcome = "written" ->
                 /\ files' = WriteFile(files, f.installPath, f.content)
                 /\ stack' = WithTop(p, [f EXCEPT !.pc =
                               IF f.type = "plan" THEN "ledger-read" ELSE "lock-read"])
                 /\ obs' = [obs EXCEPT ![p].wrote = TRUE]
                 /\ UNCHANGED <<result, prev, clean>>
            [] outcome = "throws" ->
                 /\ Raise(p, "FileSystemError", obs[p])
                 /\ UNCHANGED files
            [] outcome = "torn" ->
                 /\ files' = WriteFile(files, f.installPath, Torn(f.content))
                 /\ Raise(p, "FileSystemError", obs[p])
  /\ UNCHANGED <<registry, call, claudeMd, nops>>

\* "Create directory and write file".  mkdirSync or the open of writeFileSync
\* may throw and leave the file as it was; a write that throws half way leaves
\* a torn file.
InstallWrite(p) ==
  /\ Running(p, "install", "write")
  /\ LET f == Top(p) IN
     \E outcome \in {"written"} \cup (IF MayFail THEN {"throws", "torn"} ELSE {}) :
       /\ Fault(outcome # "written")
       /\ CASE outcome = "written" ->
                 /\ files' = WriteFile(files, f.installPath, f.content)
                 /\ stack' = WithTop(p, [f EXCEPT !.pc =
                               IF f.type = "plan" THEN "ledger-read" ELSE "lock-read"])
                 /\ obs' = [obs EXCEPT ![p].wrote = TRUE]
                 /\ UNCHANGED <<result, prev, clean>>
            [] outcome = "throws" ->
                 /\ Raise(p, "FileSystemError", obs[p])
                 /\ UNCHANGED files
            [] outcome = "torn" ->
                 /\ files' = WriteFile(files, f.installPath, Torn(f.content))
                 /\ Raise(p, "FileSystemError", obs[p])
  /\ UNCHANGED <<registry, call, lockFile, claudeMd, nops>>

\* addImport reads CLAUDE.md ...
InstallLedgerRead(p) ==
  /\ Running(p, "install", "ledger-read")
  /\ stack' = WithTop(p, [Top(p) EXCEPT !.pc = "ledger-write", !.seenDoc = claudeMd])
  /\ UNCHANGED <<registry, call, persist, result, obs, prev, clean, nops, nfaults>>

\* ... and writes it back, unless the import line is already there.
InstallLedgerWrite(p) ==
  /\ Running(p, "install", "ledger-write")
  /\ LET f == Top(p)
         updated == addImport(f.seenDoc, f.name)
     IN /\ claudeMd' = IF updated = f.seenDoc THEN claudeMd ELSE updated
        /\ stack' = WithTop(p, [f EXCEPT !.pc = "lock-read"])
  /\ UNCHANGED <<registry, call, lockFile, files, result, obs, prev, clean, nops, nfaults>>

\* addToLockfile reads planmode.lock ...
InstallLockRead(p) ==
  /\ Running(p, "install", "lock-read")
  /\ stack' = WithTop(p, [Top(p) EXCEPT !.pc = "lock-write",
                                       !.seenLock = readLockfile(lockFile)])
  /\ UNCHANGED <<registry, call, persist, result, obs, prev, clean, nops, nfaults>>

\* Mutant: the entry is merged into the Lockfile as it is at the time of the write.
InstallLockWriteMerging(p) ==
  /\ Running(p, "install", "lock-write")
  /\ LET f == Top(p) IN
     /\ lockFile' = addToLockfile(readLockfile(lockFile), f.name, EntryOf(f))
     /\ stack' = WithTop(p, [f EXCEPT !.pc = "deps"])
  /\ UNCHANGED <<registry, call, claudeMd, files, result, obs, prev, clean, nops, nfaults>>

\* Mutant: a package that declares dependencies is not recorded before they
\* are installed.
InstallLockWriteLeafOnly(p) ==
  /\ Running(p, "install", "lock-write")
  /\ LET f == Top(p) IN
     /\ lockFile' = IF Len(f.manifest.dependencies.rules) = 0
                        /\ Len(f.manifest.dependencies.plans) = 0
                     THEN addToLockfile(f.seenLock, f.name, EntryOf(f)) ELSE lockFile
     /\ stack' = WithTop(p, [f EXCEPT !.pc = "deps"])
  /\ UNCHANGED <<registry, call, claudeMd, files, result, obs, prev, clean, nops, nfaults>>

\* ... and writes the whole structure back with the entry set.
InstallLockWrite(p) ==
  /\ Running(p, "install", "lock-write")
  /\ LET f == Top(p) IN
     /\ lockFile' = addToLockfile(f.seenLock, f.name, EntryOf(f))
     /\ stack' = WithTop(p, [f EXCEPT !.pc = "deps"])
  /\ UNCHANGED <<registry, call, claudeMd, files, result, obs, prev, clean, nops, nfaults>>

\* Mutant: the plans are installed before the rules.
DepsOfPlansFirst(manifest) == manifest.dependencies.plans \o manifest.dependencies.rules

\* The declared dependencies in installation order: rules, then plans.
DepsOf(manifest) == manifest.dependencies.rules \o manifest.dependencies.plans

\* "Install dependencies": the next one, or return when the loop is over.
InstallDeps(p) ==
  /\ Running(p, "install", "deps")
  /\ LET f == Top(p)
         deps == DepsOf(f.manifest)
     IN IF f.depIdx <= Len(deps)
        THEN LET d == parseDepString(deps[f.depIdx]) IN
             /\ Len(stack[p]) < MaxDepth
             /\ stack' = Call(p, [f EXCEPT !.depIdx = @ + 1],
                              Frame("install", d.name,
                                    IF d.range = Star THEN NoVersion ELSE d.range,
                                    FALSE, FALSE, TRUE))
             /\ UNCHANGED <<result, prev, clean>>
        ELSE Return(p, "void")
  /\ UNCHANGED <<registry, call, persist, obs, nops, nfaults>>

\* ---------------------------------------------------------- uninstallPackage
UninstallLocked(p) ==
  /\ Running(p, "uninstall", "locked")
  /\ LET f == Top(p) IN
     IF ~IsLocked(lockFile, f.name)
     THEN Raise(p, "NotInstalled", obs[p])
     ELSE /\ stack' = WithTop(p, [f EXCEPT !.pc = "unlink",
                                    !.locked = getLockedVersion(lockFile, f.name)])
          /\ UNCHANGED <<result, obs, prev, clean>>
  /\ UNCHANGED <<registry, call, persist, nops, nfaults>>

\* "Remove file"
UninstallUnlink(p) ==
  /\ Running(p, "uninstall", "unlink")
  /\ LET f == Top(p) IN
     /\ files' = IF FileExists(files, f.locked.installed_to)
                 THEN Unlink(files, f.locked.installed_to) ELSE files
     /\ stack' = WithTop(p, [f EXCEPT !.pc =
                   IF f.locked.type = "plan" THEN "ledger-read" ELSE "lock-read"])
  /\ UNCHANGED <<registry, call, lockFile, claudeMd, result, obs, prev, clean, nops, nfaults>>

\* removeImport reads CLAUDE.md ...
UninstallLedgerRead(p) ==
  /\ Running(p, "uninstall", "ledger-read")
  /\ stack' = WithTop(p, [Top(p) EXCEPT !.pc = "ledger-write", !.seenDoc = claudeMd])
  /\ UNCHANGED <<registry, call, persist, result, obs, prev, clean, nops, nfaults>>

\* ... and writes it back without the import line, unless there is no document.
UninstallLedgerWrite(p) ==
  /\ Running(p, "uninstall", "ledger-write")
  /\ LET f == Top(p) IN
     /\ claudeMd' = IF ~f.seenDoc.exists THEN claudeMd ELSE removeImport(f.seenDoc, f.name)
     /\ stack' = WithTop(p, [f EXCEPT !.pc = "lock-read"])
  /\ UNCHANGED <<registry, call, lockFile, files, result, obs, prev, clean, nops, nfaults>>

UninstallLockRead(p) ==
  /\ Running(p, "uninstall", "lock-read")
  /\ stack' = WithTop(p, [Top(p) EXCEPT !.pc = "lock-write",
                                       !.seenLock = readLockfile(lockFile)])
  /\ UNCHANGED <<registry, call, persist, result, obs, prev, clean, nops, nfaults>>

UninstallLockWrite(p) ==
  /\ Running(p, "uninstall", "lock-write")
  /\ LET f == Top(p) IN
     /\ lockFile' = removeFromLockfile(f.seenLock, f.name)
     /\ stack' = WithTop(p, [f EXCEPT !.pc = "done"])
  /\ UNCHANGED <<registry, call, claudeMd, files, result, obs, prev, clean, nops, nfaults>>

UninstallDone(p) ==
  /\ Running(p, "uninstall", "done")
  /\ Return(p, "void")
  /\ UNCHANGED <<registry, call, persist, obs, nops, nfaults>>

\* ------------------------------------------------------------- updatePackage
UpdateLocked(p) ==
  /\ Running(p, "update", "locked")
  /\ LET f == Top(p) IN
     IF ~IsLocked(lockFile, f.name)
     THEN Raise(p, "NotInstalled", obs[p])
     ELSE /\ stack' = WithTop(p, [f EXCEPT !.pc = "resolve",
                                    !.locked = getLockedVersion(lockFile, f.name)])
          /\ UNCHANGED <<result, obs, prev, clean>>
  /\ UNCHANGED <<registry, call, persist, nops, nfaults>>

\* Mutant: the package is replaced whatever version the Lockfile records.
UpdateResolveAlways(p) ==
  /\ Running(p, "update", "resolve")
  /\ LET f == Top(p)
         o == [obs[p] EXCEPT !.fetched = TRUE]
     IN \E net \in Net :
          /\ Fault(net = "fails")
          /\ IF net = "fails" THEN Raise(p, "NetworkFailure", o)
             ELSE IF f.name \notin DOMAIN registry THEN Raise(p, "PackageNotFound", o)
             ELSE LET r == resolveVersion(registry[f.name], NoVersion) IN
                  /\ stack' = WithTop(p, [f EXCEPT !.pc = "uninstall", !.resolved = r.version])
                  /\ obs' = [obs EXCEPT ![p] = o]
                  /\ UNCHANGED <<result, prev, clean>>
  /\ UNCHANGED <<registry, call, persist, nops>>

\* resolveVersion(packageName): up to date, or go on to replace the package.
UpdateResolve(p) ==
  /\ Running(p, "update", "resolve")
  /\ LET f == Top(p)
         o == [obs[p] EXCEPT !.fetched = TRUE]
     IN \E net \in Net :
          /\ Fault(net = "fails")
          /\ IF net = "fails" THEN Raise(p, "NetworkFailure", o)
             ELSE IF f.name \notin DOMAIN registry THEN Raise(p, "PackageNotFound", o)
             ELSE LET r == resolveVersion(registry[f.name], NoVersion) IN
                  IF r.version = f.locked.version
                  THEN /\ Return(p, "false")
                       /\ obs' = [obs EXCEPT ![p] = o]
                  ELSE /\ stack' = WithTop(p, [f EXCEPT !.pc = "uninstall", !.resolved = r.version])
                       /\ obs' = [obs EXCEPT ![p] = o]
                       /\ UNCHANGED <<result, prev, clean>>
  /\ UNCHANGED <<registry, call, persist, nops>>

\* Mutant: the old version is not uninstalled before the new one is installed.
UpdateUninstallSkipped(p) ==
  /\ Running(p, "update", "uninstall")
  /\ stack' = WithTop(p, [Top(p) EXCEPT !.pc = "install"])
  /\ UNCHANGED <<registry, call, persist, result, obs, prev, clean, nops, nfaults>>

\* "Uninstall old, ..."
UpdateUninstall(p) ==
  /\ Running(p, "update", "uninstall")
  /\ stack' = Call(p, [Top(p) EXCEPT !.pc = "install"],
                   Frame("uninstall", Top(p).name, NoVersion, FALSE, FALSE, FALSE))
  /\ UNCHANGED <<registry, call, persist, result, obs, prev, clean, nops, nfaults>>

\* "... install new"
UpdateInstall(p) ==
  /\ Running(p, "update", "install")
  /\ stack' = Call(p, [Top(p) EXCEPT !.pc = "done"],
                   Frame("install", Top(p).name, RangeStr("", Top(p).resolved),
                         FALSE, FALSE, FALSE))
  /\ UNCHANGED <<registry, call, persist, result, obs, prev, clean, nops, nfaults>>

UpdateDone(p) ==
  /\ Running(p, "update", "done")
  /\ Return(p, "true")
  /\ UNCHANGED <<registry, call, persist, obs, nops, nfaults>>

\* -------------------------------------------------------------------- doctor
RECURSIVE SeqOf(_)
\* The elements of a set in the order Object.entries / readdirSync list them.
SeqOf(S) ==
  IF S = {} THEN <<>>
  ELSE LET x == CHOOSE y \in S : TRUE IN <<x>> \o SeqOf(S \ {x})

\* A DiagnosticIssue: severity, what the message is about, and the fix hint.
Issue(severity, about, name, fix) ==
  [severity |-> severity, about |-> about, name |-> name, fix |-> fix]

\* Mutant: the hash of an entry is compared although its file is missing.
EntryIssuesWithoutContinue(lockfile, fs, names) ==
  LET Check(name) ==
        LET entry == lockfile.packages[name] IN
        IF ~FileExists(fs, entry.installed_to)
        THEN <<Issue("error", "missing-file", name, "install"),
               Issue("warning", "hash-mismatch", name, "update")>>
        ELSE IF contentHash(fs[entry.installed_to]) # entry.content_hash
        THEN <<Issue("warning", "hash-mismatch", name, "update")>>
        ELSE <<>>
      F[i \in 0..Len(names)] == IF i = 0 THEN <<>> ELSE F[i - 1] \o Check(names[i])
  IN F[Len(names)]

\* Mutant: a locally modified file is reported as an error.
EntryIssuesMismatchIsError(lockfile, fs, names) ==
  LET Check(name) ==
        LET entry == lockfile.packages[name] IN
        IF ~FileExists(fs, entry.installed_to)
        THEN <<Issue("error", "missing-file", name, "install")>>
        ELSE IF contentHash(fs[entry.installed_to]) # entry.content_hash
        THEN <<Issue("error", "hash-mismatch", name, "update")>>
        ELSE <<>>
      F[i \in 0..Len(names)] == IF i = 0 THEN <<>> ELSE F[i - 1] \o Check(names[i])
  IN F[Len(names)]

\* "Check each lockfile entry": file exists? content hash matches?
EntryIssues(lockfile, fs, names) ==
  LET Check(name) ==
        LET entry == lockfile.packages[name] IN
        IF ~FileExists(fs, entry.installed_to)
        THEN <<Issue("error", "missing-file", name, "install")>>
        ELSE IF contentHash(fs[entry.installed_to]) # entry.content_hash
        THEN <<Issue("warning", "hash-mismatch", name, "update")>>
        ELSE <<>>
      F[i \in 0..Len(names)] == IF i = 0 THEN <<>> ELSE F[i - 1] \o Check(names[i])
  IN F[Len(names)]

\* Mutant: every installed package is taken for a plan.
InstalledPlansAnyType(lockfile, names) == names

\* entries.filter(([, entry]) => entry.type === "plan").map(([name]) => name)
InstalledPlans(lockfile, names) ==
  LET IsPlan(name) == lockfile.packages[name].type = "plan" IN SelectSeq(names, IsPlan)

\* array.includes(x)
ArrayIncludes(array, x) == \E i \in 1..Len(array) : array[i] = x

\* "Plans in lockfile but missing from CLAUDE.md"
MissingImportIssues(installedPlans, imports) ==
  LET F[i \in 0..Len(installedPlans)] ==
        IF i = 0 THEN <<>>
        ELSE F[i - 1] \o (IF ~ArrayIncludes(imports, installedPlans[i])
                          THEN <<Issue("error", "missing-import", installedPlans[i], "edit")>>
                          ELSE <<>>)
  IN F[Len(installedPlans)]

\* Mutant: an import that is not in the lockfile is an error, file or no file.
UntrackedImportIssuesAllErrors(installedPlans, imports, fs) ==
  LET F[i \in 0..Len(imports)] ==
        IF i = 0 THEN <<>>
        ELSE F[i - 1] \o
             (IF ArrayIncludes(installedPlans, imports[i]) THEN <<>>
              ELSE <<Issue("error", "import-without-file", imports[i], "install")>>)
  IN F[Len(imports)]

\* "Imports in CLAUDE.md that aren't in the lockfile"
UntrackedImportIssues(installedPlans, imports, fs) ==
  LET F[i \in 0..Len(imports)] ==
        IF i = 0 THEN <<>>
        ELSE F[i - 1] \o
             (IF ArrayIncludes(installedPlans, imports[i]) THEN <<>>
              ELSE IF ~FileExists(fs, <<"plans", imports[i]>>)
              THEN <<Issue("error", "import-without-file", imports[i], "install")>>
              ELSE <<Issue("warning", "import-untracked", imports[i], "none")>>)
  IN F[Len(imports)]

\* Mutant: a missing CLAUDE.md is not reported on its own.
MissingDocIssuesNever(installedPlans, doc) == <<>>

\* "Check CLAUDE.md exists if there are plans"
MissingDocIssues(installedPlans, doc) ==
  IF Len(installedPlans) > 0 /\ ~doc.exists
  THEN <<Issue("error", "claude-md-missing", "", "install")>> ELSE <<>>

\* "Check for orphaned files in plans/ that aren't tracked"
OrphanIssues(lockfile, fs) ==
  LET planFiles == SeqOf({path[2] : path \in {q \in DOMAIN fs : q[1] = "plans"}})
      F[i \in 0..Len(planFiles)] ==
        IF i = 0 THEN <<>>
        ELSE F[i - 1] \o (IF planFiles[i] \notin DOMAIN lockfile.packages
                          THEN <<Issue("warning", "untracked-file", planFiles[i], "none")>>
                          ELSE <<>>)
  IN F[Len(planFiles)]

\* Mutant: a project with any issue is unhealthy.
DoctorResultStrict(issues, names) ==
  [threw |-> FALSE, issues |-> issues, packagesChecked |-> Len(names),
   healthy |-> Len(issues) = 0]

\* The DoctorResult runDoctor returns.
DoctorResult(issues, names) ==
  LET IsError(i) == i.severity = "error" IN
  [threw |-> FALSE, issues |-> issues, packagesChecked |-> Len(names),
   healthy |-> Len(SelectSeq(issues, IsError)) = 0]

\* runDoctor on the project directory: the DoctorResult, or the TypeError of
\* Object.entries(undefined) when the parsed lockfile has no packages.
runDoctor(file, doc, fs) ==
  LET lockfile == readLockfile(file) IN
  IF "packages" \notin DOMAIN lockfile
  THEN [threw |-> TRUE, error |-> "TypeError"]
  ELSE LET names == SeqOf(DOMAIN lockfile.packages)
           imports == listImports(doc)
           installedPlans == InstalledPlans(lockfile, names)
       IN DoctorResult(EntryIssues(lockfile, fs, names)
                         \o MissingImportIssues(installedPlans, imports)
                         \o UntrackedImportIssues(installedPlans, imports, fs)
                         \o MissingDocIssues(installedPlans, doc)
                         \o OrphanIssues(lockfile, fs),
                       names)

\* ------------------------------------------------------- the specifications
\* The steps of installPackage, uninstallPackage and updatePackage of process p.
InstallStep(p) ==
  \/ InstallLocked(p)
  \/ InstallResolve(p)
  \/ InstallFetch(p)
  \/ InstallRender(p)
  \/ InstallConflictCheck(p)
  \/ InstallWrite(p)
  \/ InstallLedgerRead(p)
  \/ InstallLedgerWrite(p)
  \/ InstallLockRead(p)
  \/ InstallLockWrite(p)
  \/ InstallDeps(p)

UninstallStep(p) ==
  \/ UninstallLocked(p)
  \/ UninstallUnlink(p)
  \/ UninstallLedgerRead(p)
  \/ UninstallLedgerWrite(p)
  \/ UninstallLockRead(p)
  \/ UninstallLockWrite(p)
  \/ UninstallDone(p)

UpdateStep(p) ==
  \/ UpdateLocked(p)
  \/ UpdateResolve(p)
  \/ UpdateUninstall(p)
  \/ UpdateInstall(p)
  \/ UpdateDone(p)

\* One CLI process at a time works on the project directory.
Next ==
  \/ \E r \in InstallRequests :
       StartInstall(1, r.name, r.version, r.forceRule, r.variables)
  \/ \E name \in UninstallNames : StartUninstall(1, name)
  \/ \E name \in UpdateNames : StartUpdate(1, name)
  \/ InstallStep(1)
  \/ UninstallStep(1)
  \/ UpdateStep(1)
  \/ Kill(1)

Spec == Init /\ [][Next]_vars

\* Two CLI invocations, one installPackage call each, install different
\* packages into the project directory at the same time.
ConcurrentRequests(p) ==
  IF p = 1
  THEN {Request("install", "base", NoVersion, FALSE, FALSE)}
  ELSE {Request("install", "tmpl", NoVersion, FALSE, TRUE),
        Request("install", "app", NoVersion, FALSE, FALSE)}

NextConc ==
  \E p \in Procs :
    \/ \E r \in ConcurrentRequests(p) :
         /\ result[p] = NoResult
         /\ StartInstall(p, r.name, r.version, r.forceRule, r.variables)
    \/ InstallStep(p)

SpecConc == Init /\ [][NextConc]_vars

\* Installs from a registry with dependency cycles.
CycleRequests ==
  {Request("install", n, v, FALSE, FALSE) :
     n \in {"loopa", "loopb", "ringa", "mixa", "mixb"},
     v \in {NoVersion, RangeStr("", V100)}}
    \cup {Request("install", n, NoVersion, FALSE, FALSE) : n \in {"top", "mid"}}

InitCycle ==
  /\ registry = RegCycle
  /\ lockFile = NoLockFile
  /\ claudeMd = NoDoc
  /\ files = [q \in {} |-> 0]
  /\ stack = [p \in Procs |-> <<>>]
  /\ result = [p \in Procs |-> NoResult]
  /\ obs = [p \in Procs |-> NoObs]
  /\ prev = [req |-> NoRequest, status |-> "none", before |-> NoObs.before]
  /\ clean = TRUE
  /\ nops = 0
  /\ nfaults = 0
  /\ call = NoCall

NextCycle ==
  \/ \E r \in CycleRequests :
       StartInstall(1, r.name, r.version, r.forceRule, r.variables)
  \/ InstallStep(1)

SpecCycle == InitCycle /\ [][NextCycle]_vars

\* The same when every fetch and every write succeeds, and an installation
\* in progress always takes its next step.
InstallStepUnfailing(p) == InstallStep(p) /\ nfaults' = nfaults

NextUnfailing ==
  \/ \E r \in CycleRequests :
       StartInstall(1, r.name, r.version, r.forceRule, r.variables)
  \/ InstallStepUnfailing(1)

SpecUnfailing == InitCycle /\ [][NextUnfailing]_vars /\ WF_vars(InstallStepUnfailing(1))

\* The versions a registry lists, and the version lists of a metadata.json.
Versions == {<<1, 9, 0>>, <<1, 10, 0>>, <<2, 0, 0>>, <<0, 2, 5>>}

VersionLists == UNION {[1..n -> Versions] : n \in 0..MaxVersions}

\* The constraint strings resolveVersion is called with.
Constraints ==
  {Star, NoVersion, RangeStr("latest", <<0, 0, 0>>),
   RangeStr("", <<1, 9, 0>>), RangeStr("", <<3, 0, 0>>),
   RangeStr("^", <<1, 2, 3>>), RangeStr("^", <<1, 9, 1>>), RangeStr("^", <<0, 2, 0>>),
   RangeStr("~", <<1, 9, 0>>), RangeStr("~", <<1, 10, 0>>),
   RangeStr(">=", <<1, 9, 1>>), RangeStr(">=", <<2, 0, 1>>)}

\* resolveVersion is called for a package with some metadata.json.
ResolveCall ==
  \E versions \in VersionLists, latest \in Versions, versionRange \in Constraints :
    LET metadata == [latest_version |-> latest, versions |-> versions] IN
    /\ call.fn = "none"
    /\ call' = [fn |-> "resolveVersion", args |-> <<metadata, versionRange>>,
                out |-> resolveVersion(metadata, versionRange)]
    /\ UNCHANGED <<registry, persist, stack, result, obs, prev, clean, nops, nfaults>>

NextResolve == ResolveCall

SpecResolve == Init /\ [][NextResolve]_vars

\* The doctor run once on a project directory in any state: packages app (a
\* plan, or installed as a rule) and style (a rule) locked or not, their files
\* present, edited or missing, a hand-written plans/notes.md, CLAUDE.md in
\* several shapes, planmode.lock in every shape readLockfile distinguishes.
DoctorEntries(name) ==
  LET content == Content(name, V100, "static")
      other == Content(name, V110, "static")
  IN IF name = "app"
     THEN {LockEntry(name, V100, "plan", content, getInstallPath(name, "plan")),
           LockEntry(name, V100, "plan", other, getInstallPath(name, "plan")),
           LockEntry(name, V100, "rule", content, getInstallPath(name, "rule"))}
     ELSE {LockEntry(name, V100, "rule", content, getInstallPath(name, "rule"))}

DoctorLockfiles ==
  LET All == UNION {DoctorEntries(n) : n \in {"app", "style"}} IN
  {[lockfile_version |-> 1, packages |-> pk] :
     pk \in {f \in UNION {[S -> All] : S \in SUBSET {"app", "style"}} :
               \A n \in DOMAIN f : f[n] \in DoctorEntries(n)}}

DoctorLockFiles ==
  {NoLockFile, CorruptLockFile, NullLockFile, MappingLockFile}
    \cup {writeLockfile(l) : l \in DoctorLockfiles}

DoctorPaths ==
  {getInstallPath("app", "plan"), getInstallPath("notes", "plan"),
   getInstallPath("app", "rule"), getInstallPath("style", "rule")}

DoctorFileSystems ==
  LET At(path) == {Content(path[2], V100, "static"), Torn(Content(path[2], V100, "static"))}
      All == UNION {At(q) : q \in DoctorPaths}
  IN {f \in UNION {[S -> All] : S \in SUBSET DoctorPaths} :
        \A q \in DOMAIN f : f[q] \in At(q)}

DoctorDocs ==
  LET Text == DocOf(<<"# Project", NL, "Some notes.", NL>>) IN
  {NoDoc, DocOf(<<>>), Text,
   addImport(NoDoc, "app"), addImport(NoDoc, "notes"), addImport(Text, "app"),
   addImport(addImport(NoDoc, "app"), "notes"),
   addImport(addImport(NoDoc, "app"), "style"),
   DocOf(PLANMODE_SECTION \o <<NL>> \o importLine("notes") \o <<NL>>
           \o importLine("notes") \o <<NL>>)}

InitDoctor ==
  /\ registry \in Registries
  /\ lockFile \in DoctorLockFiles
  /\ claudeMd \in DoctorDocs
  /\ files \in DoctorFileSystems
  /\ stack = [p \in Procs |-> <<>>]
  /\ result = [p \in Procs |-> NoResult]
  /\ obs = [p \in Procs |-> NoObs]
  /\ prev = [req |-> NoRequest, status |-> "none", before |-> NoObs.before]
  /\ clean = TRUE
  /\ nops = 0
  /\ nfaults = 0
  /\ call = NoCall

\* Mutant: the doctor creates the CLAUDE.md it finds missing.
RunDoctorRepairing ==
  /\ Idle
  /\ call.fn # "runDoctor" \/ call.args # <<Persist>>
  /\ call' = [fn |-> "runDoctor", args |-> <<Persist>>,
              out |-> runDoctor(lockFile, claudeMd, files)]
  /\ claudeMd' = IF claudeMd.exists THEN claudeMd ELSE DocOf(<<>>)
  /\ UNCHANGED <<registry, lockFile, files, stack, result, obs, prev, clean, nops, nfaults>>

\* planmode doctor: one call of runDoctor(projectDir); it reads and reports.
RunDoctor ==
  /\ Idle
  /\ call.fn # "runDoctor" \/ call.args # <<Persist>>
  /\ call' = [fn |-> "runDoctor", args |-> <<Persist>>,
              out |-> runDoctor(lockFile, claudeMd, files)]
  /\ UNCHANGED <<registry, persist, stack, result, obs, prev, clean, nops, nfaults>>

NextDoctor == RunDoctor

SpecDoctor == InitDoctor /\ [][NextDoctor]_vars

\* The project in use: packages are installed, the user edits or deletes
\* installed files by hand, and runs planmode doctor now and then.
RepairRequests ==
  {Request("install", "app", NoVersion, FALSE, FALSE),
   Request("install", "style", NoVersion, FALSE, FALSE)}

\* A file after the user has changed it in an editor.
Edited(content) == [content EXCEPT !.values = "edited"]

EditFile ==
  /\ Idle
  /\ \E path \in DOMAIN files :
       /\ files[path] # Edited(files[path])
       /\ files' = [files EXCEPT ![path] = Edited(@)]
  /\ UNCHANGED <<registry, call, lockFile, claudeMd, stack, result, obs, prev, clean,
                 nops, nfaults>>

DeleteFile ==
  /\ Idle
  /\ \E path \in DOMAIN files :
       files' = [q \in DOMAIN files \ {path} |-> files[q]]
  /\ UNCHANGED <<registry, call, lockFile, claudeMd, stack, result, obs, prev, clean,
                 nops, nfaults>>

NextRepair ==
  \/ \E r \in RepairRequests :
       StartInstall(1, r.name, r.version, r.forceRule, r.variables)
  \/ InstallStep(1)
  \/ EditFile
  \/ DeleteFile
  \/ RunDoctor

SpecRepair == Init /\ [][NextRepair]_vars

\* The Import Ledger on its own: CLAUDE.md is any document of a few lines,
\* written by hand or by the tool, and addImport, removeImport and listImports
\* are called on it.
ImportNames == {"app", "notes"}

LedgerLines ==
  {PLANMODE_SECTION,
   <<"# Planmode", " ", "setup">>,
   <<"# Notes">>,
   importLine("app"),
   importLine("notes"),
   <<" ", " ">> \o importLine("app"),
   <<"-", "@plans/", "app", ".md">>}

LedgerDocs ==
  {NoDoc} \cup
  {DocOf(JoinNL(lines) \o (IF newline THEN <<NL>> ELSE <<>>)) :
     lines \in UNION {[1..n -> LedgerLines] : n \in 0..MaxLines}, newline \in BOOLEAN}

InitLedger ==
  /\ registry \in Registries
  /\ lockFile = NoLockFile
  /\ claudeMd \in LedgerDocs
  /\ files = [q \in {} |-> 0]
  /\ stack = [p \in Procs |-> <<>>]
  /\ result = [p \in Procs |-> NoResult]
  /\ obs = [p \in Procs |-> NoObs]
  /\ prev = [req |-> NoRequest, status |-> "none", before |-> NoObs.before]
  /\ clean = TRUE
  /\ nops = 0
  /\ nfaults = 0
  /\ call = NoCall

AddImportCall(planName) ==
  /\ nops < MaxOps
  /\ nops' = nops + 1
  /\ claudeMd' = addImport(claudeMd, planName)
  /\ call' = [fn |-> "addImport", args |-> <<claudeMd, planName>>,
              out |-> addImport(claudeMd, planName)]
  /\ UNCHANGED <<registry, lockFile, files, stack, result, obs, prev, clean, nfaults>>

RemoveImportCall(planName) ==
  /\ nops < MaxOps
  /\ nops' = nops + 1
  /\ claudeMd' = removeImport(claudeMd, planName)
  /\ call' = [fn |-> "removeImport", args |-> <<claudeMd, planName>>,
              out |-> removeImport(claudeMd, planName)]
  /\ UNCHANGED <<registry, lockFile, files, stack, result, obs, prev, clean, nfaults>>

ListImportsCall ==
  /\ nops < MaxOps
  /\ nops' = nops + 1
  /\ call' = [fn |-> "listImports", args |-> <<claudeMd>>, out |-> listImports(claudeMd)]
  /\ UNCHANGED <<registry, persist, stack, result, obs, prev, clean, nfaults>>

NextLedger ==
  \/ \E planName \in ImportNames : AddImportCall(planName)
  \/ \E planName \in ImportNames : RemoveImportCall(planName)
  \/ ListImportsCall

SpecLedger == InitLedger /\ [][NextLedger]_vars

\* Packages that have a newer version: app's 1.1.0 declares a required
\* variable, style's metadata names 1.2.0 as latest without listing it, base's
\* 1.1.0 installs as 1.0.0 does.
RegUpdate ==
  [app |->
     [latest_version |-> V110, versions |-> <<V100, V110>>,
      manifests |-> [v \in {V100, V110} |->
         Manifest("plan", <<>>, <<>>,
                  IF v = V110 THEN RequiredVariable ELSE NoVariables, "content", TRUE)]],
   style |->
     [latest_version |-> V120, versions |-> <<V100>>,
      manifests |-> [v \in {V100} |->
         Manifest("rule", <<>>, <<>>, NoVariables, "content", TRUE)]],
   base |->
     [latest_version |-> V110, versions |-> <<V100, V110>>,
      manifests |-> [v \in {V100, V110} |->
         Manifest("plan", <<>>, <<>>, NoVariables, "content_file", TRUE)]]]

InitUpdate ==
  /\ registry = RegUpdate
  /\ lockFile = NoLockFile
  /\ claudeMd = NoDoc
  /\ files = [q \in {} |-> 0]
  /\ stack = [p \in Procs |-> <<>>]
  /\ result = [p \in Procs |-> NoResult]
  /\ obs = [p \in Procs |-> NoObs]
  /\ prev = [req |-> NoRequest, status |-> "none", before |-> NoObs.before]
  /\ clean = TRUE
  /\ nops = 0
  /\ nfaults = 0
  /\ call = NoCall

NextUpdate ==
  \/ \E name \in DOMAIN RegUpdate :
       StartInstall(1, name, RangeStr("", V100), FALSE, FALSE)
  \/ \E name \in DOMAIN RegUpdate : StartUpdate(1, name)
  \/ InstallStep(1)
  \/ UninstallStep(1)
  \/ UpdateStep(1)

SpecUpdate == InitUpdate /\ [][NextUpdate]_vars

\* The parsers of the resolver on their own: satisfies on a version and a
\* constraint string, parseDepString on a dependency string.
SmallVersions == {<<a, b, c>> : a \in 0..MaxPart, b \in 0..MaxPart, c \in 0..MaxPart}

RangeStrings ==
  {Star} \cup {RangeStr(prefix, v) : prefix \in {"", "^", "~", ">="}, v \in SmallVersions}

\* Package names as the characters of a dependency string: unscoped, and
\* scoped ("@scope/name").
PackageNames ==
  {<<Ch("app")>>, <<Ch("style")>>, <<Ch("@"), Ch("acme/app")>>, <<Ch("@"), Ch("a/b")>>}

DepStrings ==
  PackageNames \cup {n \o <<Ch("@"), range>> : n \in PackageNames, range \in RangeStrings}

SatisfiesCall(version, range) ==
  /\ call.fn = "none"
  /\ call' = [fn |-> "satisfies", args |-> <<version, range>>,
              out |-> satisfies(version, parseVersionRange(range))]
  /\ UNCHANGED <<registry, persist, stack, result, obs, prev, clean, nops, nfaults>>

ParseDepStringCall(dep) ==
  /\ call.fn = "none"
  /\ call' = [fn |-> "parseDepString", args |-> <<dep>>, out |-> parseDepString(dep)]
  /\ UNCHANGED <<registry, persist, stack, result, obs, prev, clean, nops, nfaults>>

NextParse ==
  \/ \E version \in SmallVersions, range \in RangeStrings : SatisfiesCall(version, range)
  \/ \E dep \in DepStrings : ParseDepStringCall(dep)

SpecParse == Init /\ [][NextParse]_vars

\* The lockfile store on its own: planmode.lock is absent, broken or holds
\* some lockfile, and the functions of the store are called on it.
LockNames == {"app", "style"}

LockFiles ==
  DoctorLockFiles \cup {[kind |-> "corrupt", raw |-> stringify(l)] : l \in DoctorLockfiles}

InitLock ==
  /\ registry \in Registries
  /\ lockFile \in LockFiles
  /\ claudeMd = NoDoc
  /\ files = [q \in {} |-> 0]
  /\ stack = [p \in Procs |-> <<>>]
  /\ result = [p \in Procs |-> NoResult]
  /\ obs = [p \in Procs |-> NoObs]
  /\ prev = [req |-> NoRequest, status |-> "none", before |-> NoObs.before]
  /\ clean = TRUE
  /\ nops = 0
  /\ nfaults = 0
  /\ call = NoCall

\* Reading a property of lockfile.packages throws when the parsed document
\* has no packages key.
HasPackages(lockfile) == "packages" \in DOMAIN lockfile

TypeError == [threw |-> TRUE, error |-> "TypeError"]

WriteLockfileCall(lockfile) ==
  /\ nops < MaxOps
  /\ nops' = nops + 1
  /\ lockFile' = writeLockfile(lockfile)
  /\ call' = [fn |-> "writeLockfile", args |-> <<lockFile, lockfile>>,
              out |-> writeLockfile(lockfile)]
  /\ UNCHANGED <<registry, claudeMd, files, stack, result, obs, prev, clean, nfaults>>

ReadLockfileCall ==
  /\ nops < MaxOps
  /\ nops' = nops + 1
  /\ call' = [fn |-> "readLockfile", args |-> <<lockFile>>, out |-> readLockfile(lockFile)]
  /\ UNCHANGED <<registry, persist, stack, result, obs, prev, clean, nfaults>>

AddToLockfileCall(packageName, entry) ==
  LET lockfile == readLockfile(lockFile)
      out == IF HasPackages(lockfile)
             THEN addToLockfile(lockfile, packageName, entry) ELSE TypeError
  IN /\ nops < MaxOps
     /\ nops' = nops + 1
     /\ lockFile' = IF HasPackages(lockfile) THEN out ELSE lockFile
     /\ call' = [fn |-> "addToLockfile", args |-> <<lockFile, packageName, entry>>,
                 out |-> out]
     /\ UNCHANGED <<registry, claudeMd, files, stack, result, obs, prev, clean, nfaults>>

RemoveFromLockfileCall(packageName) ==
  LET lockfile == readLockfile(lockFile)
      out == IF HasPackages(lockfile)
             THEN removeFromLockfile(lockfile, packageName) ELSE TypeError
  IN /\ nops < MaxOps
     /\ nops' = nops + 1
     /\ lockFile' = IF HasPackages(lockfile) THEN out ELSE lockFile
     /\ call' = [fn |-> "removeFromLockfile", args |-> <<lockFile, packageName>>,
                 out |-> out]
     /\ UNCHANGED <<registry, claudeMd, files, stack, result, obs, prev, clean, nfaults>>

GetLockedVersionCall(packageName) ==
  LET lockfile == readLockfile(lockFile) IN
  /\ nops < MaxOps
  /\ nops' = nops + 1
  /\ call' = [fn |-> "getLockedVersion", args |-> <<lockFile, packageName>>,
              out |-> IF ~HasPackages(lockfile) THEN TypeError
                      ELSE IF IsLocked(lockFile, packageName)
                      THEN getLockedVersion(lockFile, packageName) ELSE NoEntry]
  /\ UNCHANGED <<registry, persist, stack, result, obs, prev, clean, nfaults>>

GetDependentsCall(packageName) ==
  LET lockfile == readLockfile(lockFile) IN
  /\ nops < MaxOps
  /\ nops' = nops + 1
  /\ call' = [fn |-> "getDependents", args |-> <<lockFile, packageName>>,
              out |-> IF ~HasPackages(lockfile) THEN TypeError
                      ELSE getDependents(lockFile, packageName)]
  /\ UNCHANGED <<registry, persist, stack, result, obs, prev, clean, nfaults>>

NextLock ==
  \/ \E lockfile \in DoctorLockfiles : WriteLockfileCall(lockfile)
  \/ ReadLockfileCall
  \/ \E packageName \in LockNames : \E entry \in DoctorEntries(packageName) :
       AddToLockfileCall(packageName, entry)
  \/ \E packageName \in LockNames : RemoveFromLockfileCall(packageName)
  \/ \E packageName \in LockNames : GetLockedVersionCall(packageName)
  \/ \E packageName \in LockNames : GetDependentsCall(packageName)

SpecLock == InitLock /\ [][NextLock]_vars

\* ------------------------------------------- installPackage run to completion
RECURSIVE InstallRun(_, _, _, _, _, _)
RECURSIVE InstallDepsRun(_, _, _, _)

\* The persisted state an uninterrupted installPackage call leaves when it
\* starts in the persisted state st and no fetch or write fails: [ok, st].
InstallRun(st, name, version, forceRule, variables, fuel) ==
  LET failed == [ok |-> FALSE, st |-> st] IN
  IF fuel = 0 THEN failed
  ELSE IF IsLocked(st.lock, name) /\ version = NoVersion THEN [ok |-> TRUE, st |-> st]
  ELSE IF name \notin DOMAIN registry THEN failed
  ELSE LET r == resolveVersion(registry[name], version) IN
       IF ~r.ok \/ r.version \notin DOMAIN registry[name].manifests THEN failed
       ELSE LET m == registry[name].manifests[r.version]
                cv == IF m.variables.declared
                      THEN collectVariableValues(m.variables, variables)
                      ELSE [ok |-> TRUE, values |-> "static"]
                type == IF forceRule THEN "rule" ELSE m.type
                installPath == getInstallPath(name, type)
                content == Content(name, r.version, cv.values)
            IN IF ~m.parses \/ m.source = "none" \/ ~cv.ok THEN failed
               ELSE InstallDepsRun(
                      [files |-> WriteFile(st.files, installPath, content),
                       doc |-> IF type = "plan" THEN addImport(st.doc, name) ELSE st.doc,
                       lock |-> addToLockfile(readLockfile(st.lock), name,
                                              LockEntry(name, r.version, type, content,
                                                        installPath))],
                      DepsOf(m), 1, fuel - 1)

\* The dependency loop of InstallRun from the i-th dependency on.
InstallDepsRun(st, deps, i, fuel) ==
  IF i > Len(deps) THEN [ok |-> TRUE, st |-> st]
  ELSE LET d == parseDepString(deps[i])
           r == InstallRun(st, d.name, IF d.range = Star THEN NoVersion ELSE d.range,
                           FALSE, FALSE, fuel)
       IN IF ~r.ok THEN r ELSE InstallDepsRun(r.st, deps, i + 1, fuel)

\* ------------------------------------------------------------------ claims

Packages == readLockfile(lockFile).packages

LedgerNames == {listImports(claudeMd)[i] : i \in 1..Len(listImports(claudeMd))}

PlanNames == {n \in DOMAIN Packages : Packages[n].type = "plan"}

\* C1: after any sequence of successful install / uninstall / update
\* operations on an initially empty project, the names listed in the Ledger
\* are exactly the names of the plan-type Lockfile entries.
C1_LedgerEqualsPlanEntries ==
  (Idle /\ clean) => LedgerNames = PlanNames

\* C2: after any sequence of successful operations every Lockfile entry's
\* installed_to file exists and the hash of its content is the entry's
\* content_hash.
C2_EntriesHaveMatchingFiles ==
  (Idle /\ clean) =>
    \A n \in DOMAIN Packages :
      /\ FileExists(files, Packages[n].installed_to)
      /\ contentHash(files[Packages[n].installed_to]) = Packages[n].content_hash

C2_Witness ==
  /\ Idle /\ clean /\ nops >= 2
  /\ Cardinality(DOMAIN Packages) >= 2
  /\ \E n \in DOMAIN Packages : Packages[n].type = "rule" /\ n = "app"

\* C3: the Lockfile is written by installPackage only in the step after the
\* content file of the package has been written (the file then holds the
\* content the entry describes), and an install whose directory creation or
\* file write fails leaves the Lockfile as it was when that package's install
\* began.
C3_LockAfterWrite ==
  [][\A p \in Procs :
       (stack[p] # <<>> /\ stack'[p] # stack[p] /\ Top(p).kind = "install") =>
         /\ lockFile' # lockFile =>
              /\ Top(p).pc = "lock-write"
              /\ FileExists(files, Top(p).installPath)
              /\ contentHash(files[Top(p).installPath])
                   = getLockedVersion(lockFile', Top(p).name).content_hash
         /\ (Top(p).pc = "write" /\ result'[p].status = "error") =>
              /\ lockFile' = Top(p).before.lock
              /\ lockFile' = lockFile]_vars

C3_Witness ==
  /\ result[1].status = "error" /\ result[1].error = "FileSystemError"
  /\ \E path \in DOMAIN files :
       files[path].values = "torn" /\ ~IsLocked(lockFile, files[path].name)

\* C5: when the installation of a declared dependency fails, the install of
\* the root package ends at once with that same error: nothing of the
\* invocation keeps running (no later sibling is installed) and its result is
\* not success.
C5_DependencyFailureAborts ==
  \A p \in Procs :
    obs[p].depError # "none" =>
      /\ stack[p] = <<>>
      /\ result[p].status = "error"
      /\ result[p].error = obs[p].depError

C5_Witness ==
  /\ obs[1].depError = "NetworkFailure"
  /\ obs[1].req.name = "app"
  /\ result[1].error = "NetworkFailure"
  /\ IsLocked(lockFile, "app") /\ ~IsLocked(lockFile, "style") /\ ~IsLocked(lockFile, "base")

PreWriteErrors ==
  {"PackageNotFound", "VersionNotFound", "NetworkFailure", "InvalidManifest",
   "NoContent", "MissingVariable"}

\* C6: when installPackage fails for a package during Resolve, FetchManifest,
\* FetchContent or Render, the Lockfile, the Ledger document and every file
\* are as they were when that package's install began.
C6_EarlyFailureChangesNothing ==
  [][\A p \in Procs :
       (/\ stack[p] # <<>> /\ Top(p).kind = "install"
        /\ stack'[p] = <<>> /\ result'[p].status = "error"
        /\ result'[p].error \in PreWriteErrors) =>
         Persist' = Top(p).before]_vars

C6_Witness ==
  /\ result[1].status = "error" /\ result[1].error = "MissingVariable"
  /\ obs[1].req.name = "tmpl"
  /\ Persist = obs[1].before
  /\ DOMAIN Packages # {}

\* C9: when a file already exists at the target path, installPackage warns
\* exactly when the hash of its content differs from the hash of the new
\* content; in both cases the write goes on and the file then holds the new
\* content (which, for identical hashes, is the content it held).
C9_ConflictCheck ==
  \A p \in Procs : \A i \in 1..Len(stack[p]) :
    LET f == stack[p][i] IN
    (f.kind = "install" /\ f.pc \in {"write", "ledger-read", "ledger-write",
                                      "lock-read", "lock-write"}) =>
      /\ f.warned <=> (f.existed /\ contentHash(f.existing) # contentHash(f.content))
      /\ f.warned => f.installPath \in obs[p].warnings
      /\ f.pc # "write" =>
           /\ FileExists(files, f.installPath)
           /\ files[f.installPath] = f.content

C9_Witness ==
  /\ Idle /\ clean /\ result[1].status = "ok"
  /\ obs[1].warnings # {}
  /\ \A path \in obs[1].warnings : FileExists(files, path)

\* An uninterrupted run of the request of process p from the state st.
RunOf(p, st) ==
  InstallRun(st, obs[p].req.name, obs[p].req.version, obs[p].req.forceRule,
             obs[p].req.variables, MaxDepth)

\* C4: when an installPackage run is terminated and the same request is then
\* re-run to completion, the final Lockfile, Ledger and files are those one
\* uninterrupted run (from the state the terminated run began in) produces.
C4_RerunConverges ==
  (/\ Idle /\ result[1].status = "ok" /\ obs[1].req.op = "install"
   /\ obs[1].last.status = "killed" /\ obs[1].last.req = obs[1].req
   /\ RunOf(1, obs[1].last.before).ok) =>
    Persist = RunOf(1, obs[1].last.before).st

\* The step of process p is a step of its own code (it is not terminated).
Steps(p) == stack'[p] # stack[p] /\ result'[p].status # "killed"

\* The top activation of p returns at once: nothing persisted changes and
\* nothing is fetched, written or warned about.
ReturnsAtOnce(p) ==
  /\ stack'[p] = SubSeq(stack[p], 1, Len(stack[p]) - 1)
  /\ Len(stack[p]) = 1 => result'[p].status = "ok"
  /\ Persist' = Persist
  /\ obs'[p] = obs[p]

\* The version the request of activation f resolves to is the one the
\* Lockfile records for the package.
LockedAtRequested(f) ==
  /\ IsLocked(lockFile, f.name)
  /\ f.name \in DOMAIN registry
  /\ resolveVersion(registry[f.name], f.version).ok
  /\ resolveVersion(registry[f.name], f.version).version
       = getLockedVersion(lockFile, f.name).version

RepeatedInstall ==
  /\ Idle /\ result[1].status = "ok" /\ obs[1].req.op = "install"
  /\ obs[1].last.status = "ok" /\ obs[1].last.req = obs[1].req

\* The second run changed nothing, warned of nothing, fetched and wrote nothing.
SecondRunIdle ==
  /\ Persist = obs[1].before
  /\ obs[1].warnings = {}
  /\ ~obs[1].fetched /\ ~obs[1].wrote

C10_LastWriterWins ==
  [][\A p \in Procs :
       /\ (Running(p, "install", "lock-write") /\ Steps(p)) =>
            /\ DOMAIN readLockfile(lockFile').packages
                 = DOMAIN Top(p).seenLock.packages \cup {Top(p).name}
            /\ result'[p].status # "error"
       /\ (Running(p, "install", "ledger-write") /\ Steps(p) /\ claudeMd' # claudeMd) =>
            /\ claudeMd' = addImport(Top(p).seenDoc, Top(p).name)
            /\ result'[p].status # "error"]_vars

C10_Witness ==
  /\ Idle
  /\ result[1].status = "ok" /\ result[2].status = "ok"
  /\ obs[1].req.name = "base" /\ obs[2].req.name = "tmpl"
  /\ FileExists(files, <<"plans", "base">>) /\ FileExists(files, <<"prompts", "tmpl">>)
  /\ IsLocked(lockFile, "tmpl") /\ ~IsLocked(lockFile, "base")

\* The packages the manifests of package n declare as dependencies; with
\* pinned, only the declarations that carry a version constraint.
DepTargets(n, pinned) ==
  LET declared == UNION {{DepsOf(registry[n].manifests[v])[i] :
                            i \in 1..Len(DepsOf(registry[n].manifests[v]))} :
                         v \in DOMAIN registry[n].manifests}
  IN {parseDepString(d).name :
        d \in {e \in declared : pinned => parseDepString(e).range # Star}}

RECURSIVE Reach(_, _, _)
\* The packages reached from the set ns by at most k dependency declarations.
Reach(ns, pinned, k) ==
  IF k = 0 THEN ns
  ELSE Reach(ns \cup UNION {DepTargets(n, pinned) : n \in ns \cap DOMAIN registry},
             pinned, k - 1)

\* Package n depends, directly or not, on itself.
InCycle(n, pinned) ==
  /\ n \in DOMAIN registry
  /\ n \in Reach(DepTargets(n, pinned), pinned, Cardinality(DOMAIN registry))

\* The install process p was asked for is not answered by the Lockfile check.
RootInstalls(p) ==
  /\ obs[p].req.op = "install"
  /\ ~(IsLocked(obs[p].before.lock, obs[p].req.name) /\ obs[p].req.version = NoVersion)

\* The invocation of p has not ended, or a failed fetch or write ended it.
NeverReturns(p) ==
  /\ result[p].status # "ok"
  /\ result[p].status = "error" =>
       result[p].error \in {"NetworkFailure", "FileSystemError"}

\* C11 as stated: installing a package that belongs to a dependency cycle
\* never terminates.
C11_CycleNeverReturns ==
  \A p \in Procs :
    (RootInstalls(p) /\ InCycle(obs[p].req.name, FALSE)) => NeverReturns(p)

\* C11 as amended: installing a package that belongs to a dependency cycle
\* all of whose declarations carry a version constraint never returns (only a
\* failed fetch or write ends it); the recursion re-enters the package.
C11_PinnedCycleNeverReturns ==
  \A p \in Procs :
    (RootInstalls(p) /\ InCycle(obs[p].req.name, TRUE)) => NeverReturns(p)

C11_Witness ==
  /\ nfaults = 0
  /\ Len(stack[1]) >= 4
  /\ stack[1][1].name = "loopa" /\ stack[1][2].name = "loopb"
  /\ stack[1][3].name = "loopa" /\ stack[1][4].name = "loopb"
  /\ IsLocked(lockFile, "loopa") /\ IsLocked(lockFile, "loopb")

\* Version v meets the constraint string c (the resolver's constraint grammar).
Meets(v, c) ==
  CASE c.prefix = "*" -> TRUE
    [] c.prefix = "" -> v = c.v
    [] c.prefix = "^" ->
         v[1] = c.v[1] /\ (v[2] > c.v[2] \/ (v[2] = c.v[2] /\ v[3] >= c.v[3]))
    [] c.prefix = "~" -> v[1] = c.v[1] /\ v[2] = c.v[2] /\ v[3] >= c.v[3]
    [] c.prefix = ">=" ->
         \/ v[1] > c.v[1]
         \/ v[1] = c.v[1] /\ v[2] > c.v[2]
         \/ v[1] = c.v[1] /\ v[2] = c.v[2] /\ v[3] >= c.v[3]

\* a is a higher version than b: major, then minor, then patch, as numbers.
Higher(a, b) ==
  \/ a[1] > b[1]
  \/ a[1] = b[1] /\ a[2] > b[2]
  \/ a[1] = b[1] /\ a[2] = b[2] /\ a[3] > b[3]

\* The versions of the list V that meet c.
Meeting(V, c) == {V[i] : i \in {j \in 1..Len(V) : Meets(V[j], c)}}

\* The maximum of a non-empty set of versions.
Highest(S) == CHOOSE m \in S : \A o \in S : ~Higher(o, m)

\* resolveVersion was called with a version list and a constraint string.
Resolved == call.fn = "resolveVersion"

\* C12: for every version list V and constraint string C, resolveVersion
\* returns the highest version of V that meets C (numeric comparison of major,
\* minor, patch), or throws an error whose message lists all of V when none
\* meets C; the version list is as it was.
C12_ResolvesHighestMatching ==
  (Resolved /\ call.args[2].prefix \in {"*", "", "^", "~", ">="}) =>
    LET V == call.args[1].versions
        C == call.args[2]
    IN /\ call.out.metadata.versions = V
       /\ IF Meeting(V, C) # {}
          THEN call.out.ok /\ call.out.version = Highest(Meeting(V, C))
          ELSE /\ ~call.out.ok
               /\ Len(call.out.message) = 3 + (IF Len(V) = 0 THEN 0 ELSE 2 * Len(V) - 1)
               /\ \A i \in 1..Len(V) : call.out.message[3 + 2 * i - 1] = V[i]

C12_Witness ==
  /\ Resolved
  /\ call.args[1].versions = <<<<1, 10, 0>>, <<0, 2, 5>>, <<1, 9, 0>>>>
  /\ call.args[2] = RangeStr("^", <<1, 2, 3>>)
  /\ call.out.ok /\ call.out.version = <<1, 10, 0>>

\* resolveVersion was called with no constraint.
ResolvedAbsent == Resolved /\ call.args[2] = NoVersion

\* The versions of the list V.
Listed(V) == {V[i] : i \in 1..Len(V)}

Ended(p, op) ==
  /\ stack[p] = <<>>
  /\ obs[p].req.op = op
  /\ result[p].status \in {"ok", "error"}

\* The Lockfile entries when the invocation of p began.
PackagesBefore(p) == readLockfile(obs[p].before.lock).packages

\* C14: uninstallPackage(P) throws 'not installed' and changes nothing when P
\* has no Lockfile entry; otherwise, once it has returned, no file is at P's
\* recorded install path, P has no Lockfile entry and, if the recorded type
\* is plan, the Ledger does not name P.
C14_Uninstall ==
  \A p \in Procs :
    Ended(p, "uninstall") =>
      LET name == obs[p].req.name IN
      IF name \notin DOMAIN PackagesBefore(p)
      THEN /\ result[p].status = "error" /\ result[p].error = "NotInstalled"
           /\ Persist = obs[p].before
      ELSE result[p].status = "ok" =>
             /\ ~FileExists(files, PackagesBefore(p)[name].installed_to)
             /\ ~IsLocked(lockFile, name)
             /\ PackagesBefore(p)[name].type = "plan" => name \notin LedgerNames

C14_Witness ==
  /\ clean /\ Ended(1, "uninstall") /\ result[1].status = "ok"
  /\ obs[1].req.name = "app"
  /\ PackagesBefore(1)["app"].type = "plan"
  /\ FileExists(obs[1].before.files, <<"plans", "app">>)
  /\ "base" \in LedgerNames /\ IsLocked(lockFile, "base")

\* Where a package of a type is placed.
Placement(type, name) ==
  CASE type = "plan" -> <<"plans", name>>
    [] type = "rule" -> <<".claude/rules", name>>
    [] type = "prompt" -> <<"prompts", name>>

\* The type an activation of installPackage installs its package as.
PlacedAs(f) == IF f.forceRule THEN "rule" ELSE f.manifest.type

\* C15: with the Rule type override installPackage writes the package to
\* .claude/rules/<name>, records type rule and that path in the Lockfile
\* entry and adds no Ledger entry, whatever type the manifest declares;
\* without the override the manifest type alone decides the path, and a
\* Ledger entry is added only (and always) for type plan.
C15_Placement ==
  [][\A p \in Procs :
       (stack[p] # <<>> /\ Top(p).kind = "install" /\ Steps(p)) =>
         LET f == Top(p) IN
         /\ files' # files =>
              /\ f.pc = "write"
              /\ \A path \in DOMAIN files' :
                   (path \notin DOMAIN files \/ files'[path] # files[path])
                     => path = Placement(PlacedAs(f), f.name)
         /\ f.pc = "lock-write" =>
              /\ getLockedVersion(lockFile', f.name).type = PlacedAs(f)
              /\ getLockedVersion(lockFile', f.name).installed_to
                   = Placement(PlacedAs(f), f.name)
              /\ PlacedAs(f) = "plan" => f.name \in LedgerNames
         /\ claudeMd' # claudeMd =>
              /\ ~f.forceRule /\ f.manifest.type = "plan"
              /\ listImports(claudeMd') = <<f.name>> \o listImports(claudeMd)]_vars

C15_Witness ==
  /\ Idle /\ clean /\ result[1].status = "ok" /\ nops = 1
  /\ obs[1].req.name = "app" /\ obs[1].req.forceRule
  /\ registry["app"].manifests[V100].type = "plan"
  /\ Packages["app"].type = "rule"
  /\ Packages["app"].installed_to = <<".claude/rules", "app">>
  /\ FileExists(files, <<".claude/rules", "app">>)
  /\ LedgerNames = {"base"}
  /\ Packages["style"].installed_to = <<".claude/rules", "style">>

\* C16: updatePackage(P) throws 'not installed' when P has no Lockfile entry;
\* it returns false and changes nothing persisted when the registry's latest
\* version is the locked version; otherwise, when it returns, it returns true,
\* P's Lockfile entry records the latest version and P's file holds the
\* content of that version.
C16_Update ==
  \A p \in Procs :
    Ended(p, "update") =>
      LET name == obs[p].req.name
          latest == registry[name].latest_version
      IN IF name \notin DOMAIN PackagesBefore(p)
         THEN /\ result[p].status = "error" /\ result[p].error = "NotInstalled"
              /\ Persist = obs[p].before
         ELSE result[p].status = "ok" =>
                IF PackagesBefore(p)[name].version = latest
                THEN result[p].value = "false" /\ Persist = obs[p].before
                ELSE /\ result[p].value = "true"
                     /\ IsLocked(lockFile, name)
                     /\ Packages[name].version = latest
                     /\ FileExists(files, Packages[name].installed_to)
                     /\ files[Packages[name].installed_to].name = name
                     /\ files[Packages[name].installed_to].version = latest
                     /\ files[Packages[name].installed_to].values # "torn"

C16_Witness ==
  /\ clean /\ Ended(1, "update") /\ result[1].value = "true"
  /\ obs[1].req.name = "style"
  /\ PackagesBefore(1)["style"].version = V100
  /\ Packages["style"].version = V120

\* The call of runDoctor that has been made, and what it was made on.
Doctored == call.fn = "runDoctor"
DoctorOut == call.out
Audited == call.args[1]

\* C17: runDoctor raises no error, whatever planmode.lock (absent, unparseable,
\* or parseable with any content), CLAUDE.md, plans/ and the installed files
\* are: every call returns a DoctorResult.
C17_DoctorNeverThrows ==
  Doctored => ~DoctorOut.threw

\* C18: runDoctor is read-only: planmode.lock, CLAUDE.md and every file of the
\* project directory are the same after the call as before it, whether it
\* returns or throws.
C18_DoctorReadOnly ==
  [][(call.fn = "none" /\ call'.fn = "runDoctor") => Persist' = Persist]_vars

\* C18 witness: the doctor has reported issues, fix hints among them, on a
\* project that is still as it was audited.
C18_Witness ==
  /\ Doctored /\ ~DoctorOut.threw
  /\ \E i \in 1..Len(DoctorOut.issues) : DoctorOut.issues[i].fix # "none"
  /\ ~claudeMd.exists
  /\ Persist = Audited

\* The names the Lockfile read by the doctor holds, and the issues of a result
\* that have severity error.
DoctorChecked == DOMAIN readLockfile(Audited.lock).packages
ErrorIssues == {i \in 1..Len(DoctorOut.issues) : DoctorOut.issues[i].severity = "error"}

\* C19: in every result runDoctor returns, healthy is TRUE exactly when no
\* issue has severity error (warnings alone leave the project healthy), and
\* packagesChecked is the number of Lockfile entries.
C19_HealthyIffNoError ==
  (Doctored /\ ~DoctorOut.threw) =>
     /\ DoctorOut.healthy <=> ErrorIssues = {}
     /\ DoctorOut.packagesChecked = Cardinality(DoctorChecked)

\* C19 witness: a result with two packages checked whose only issues are
\* warnings, reported healthy.
C19_Witness ==
  /\ Doctored /\ ~DoctorOut.threw
  /\ DoctorOut.packagesChecked = 2
  /\ Len(DoctorOut.issues) > 0 /\ ErrorIssues = {}
  /\ DoctorOut.healthy

\* A project the doctor has nothing to say about: planmode.lock is absent,
\* unreadable or a Lockfile structure; every entry's file exists and hashes
\* to the recorded content_hash; the Ledger names are the names of the
\* plan-type entries; plans/ holds no file without an entry.
Consistent(st) ==
  LET lockfile == readLockfile(st.lock) IN
  /\ "packages" \in DOMAIN lockfile
  /\ \A n \in DOMAIN lockfile.packages :
       /\ FileExists(st.files, lockfile.packages[n].installed_to)
       /\ contentHash(st.files[lockfile.packages[n].installed_to])
            = lockfile.packages[n].content_hash
  /\ {listImports(st.doc)[i] : i \in 1..Len(listImports(st.doc))}
       = {n \in DOMAIN lockfile.packages : lockfile.packages[n].type = "plan"}
  /\ \A q \in DOMAIN st.files : q[1] = "plans" => q[2] \in DOMAIN lockfile.packages

\* C20: on a consistent project, the empty project included, runDoctor
\* returns no issue and healthy = TRUE; entries of type rule or prompt need
\* no Ledger entry and no CLAUDE.md.
C20_NoFalseAlarm ==
  (Doctored /\ Consistent(Audited)) =>
     /\ ~DoctorOut.threw
     /\ DoctorOut.issues = <<>>
     /\ DoctorOut.healthy

\* C20 witness: a rule-type entry with its file in place and no CLAUDE.md at
\* all has been audited.
C20_Witness ==
  /\ Doctored /\ Consistent(Audited)
  /\ DoctorChecked = {"style"}
  /\ ~Audited.doc.exists
  /\ DoctorOut.issues = <<>>

\* What the audited project holds: the names of its plan-type entries, the
\* names the Ledger lists, and whether an entry's file is on disk unedited.
AuditedLock == readLockfile(Audited.lock)
AuditedPlans == {n \in DOMAIN AuditedLock.packages : AuditedLock.packages[n].type = "plan"}
AuditedImports == {listImports(Audited.doc)[i] : i \in 1..Len(listImports(Audited.doc))}
Intact(n) ==
  /\ FileExists(Audited.files, AuditedLock.packages[n].installed_to)
  /\ contentHash(Audited.files[AuditedLock.packages[n].installed_to])
       = AuditedLock.packages[n].content_hash

\* The issues of the result that are about one thing and one name.
IssuesAbout(about, name) ==
  {i \in 1..Len(DoctorOut.issues) :
     DoctorOut.issues[i].about = about /\ DoctorOut.issues[i].name = name}

\* The audited project has one plan-type entry that the Ledger does not list
\* and deviates in nothing else.
OnlyUnlistedPlan ==
  /\ Doctored /\ "packages" \in DOMAIN AuditedLock
  /\ \A n \in DOMAIN AuditedLock.packages : Intact(n)
  /\ AuditedImports \subseteq AuditedPlans
  /\ Cardinality(AuditedPlans \ AuditedImports) = 1
  /\ \A q \in DOMAIN Audited.files :
       q[1] = "plans" => q[2] \in DOMAIN AuditedLock.packages

\* C21 as stated: a plan-type entry with an intact file whose name the Ledger
\* does not list, CLAUDE.md existing or not, gives exactly one issue of
\* severity error, and healthy = FALSE.
C21_UnlistedPlanOneError ==
  OnlyUnlistedPlan =>
     /\ ~DoctorOut.threw
     /\ Cardinality(ErrorIssues) = 1
     /\ ~DoctorOut.healthy

\* C21 amended: such an entry gives exactly one missing-from-CLAUDE.md error
\* naming it and healthy = FALSE; it is the only error when CLAUDE.md exists,
\* and when CLAUDE.md does not exist there is a second error, for the missing
\* document.
C21_UnlistedPlanErrors ==
  OnlyUnlistedPlan =>
     /\ ~DoctorOut.threw
     /\ \A n \in AuditedPlans \ AuditedImports :
          /\ Cardinality(IssuesAbout("missing-import", n)) = 1
          /\ \A i \in IssuesAbout("missing-import", n) :
               DoctorOut.issues[i].severity = "error"
     /\ Cardinality(IssuesAbout("claude-md-missing", ""))
          = (IF Audited.doc.exists THEN 0 ELSE 1)
     /\ Cardinality(ErrorIssues) = (IF Audited.doc.exists THEN 1 ELSE 2)
     /\ ~DoctorOut.healthy

\* C21 witness: the plan app is locked with its file intact, a rule beside
\* it, and there is no CLAUDE.md: two errors.
C21_Witness ==
  /\ OnlyUnlistedPlan
  /\ ~Audited.doc.exists
  /\ DOMAIN AuditedLock.packages = {"app", "style"}
  /\ Cardinality(ErrorIssues) = 2

\* How many Ledger entries of the audited project carry a name.
Occurrences(n) ==
  Cardinality({i \in 1..Len(listImports(Audited.doc)) : listImports(Audited.doc)[i] = n})

\* C22: each Ledger entry without a plan-type Lockfile entry is classified by
\* its backing file plans/<name>.md: no file, exactly one error (dangling
\* reference) for the entry; file present, a warning (untracked but present)
\* and no error, so that healthy is what it is without the entry.
C22_UntrackedImports ==
  (Doctored /\ ~DoctorOut.threw) =>
     \A n \in AuditedImports \ AuditedPlans :
        IF ~FileExists(Audited.files, <<"plans", n>>)
        THEN /\ Cardinality(IssuesAbout("import-without-file", n)) = Occurrences(n)
             /\ \A i \in IssuesAbout("import-without-file", n) :
                  DoctorOut.issues[i].severity = "error"
             /\ IssuesAbout("import-untracked", n) = {}
             /\ ~DoctorOut.healthy
        ELSE /\ Cardinality(IssuesAbout("import-untracked", n)) = Occurrences(n)
             /\ \A i \in IssuesAbout("import-untracked", n) :
                  DoctorOut.issues[i].severity = "warning"
             /\ IssuesAbout("import-without-file", n) = {}
             /\ DoctorOut.healthy
                  = runDoctor(Audited.lock, removeImport(Audited.doc, n), Audited.files).healthy

\* C22 witness: the Ledger lists app and notes, nothing is locked, plans/notes.md
\* is on disk and plans/app.md is not: a warning for notes and an error for app.
C22_Witness ==
  /\ Doctored /\ ~DoctorOut.threw
  /\ AuditedPlans = {} /\ AuditedImports = {"app", "notes"}
  /\ IssuesAbout("import-untracked", "notes") # {}
  /\ IssuesAbout("import-without-file", "app") # {}

\* C24: every Lockfile entry whose install path is not on disk gets an error
\* for the missing file with the hint to reinstall, no hash comparison (no
\* hash warning for that entry), and healthy = FALSE.
C24_MissingFile ==
  (Doctored /\ ~DoctorOut.threw) =>
     \A n \in DoctorChecked :
        ~FileExists(Audited.files, AuditedLock.packages[n].installed_to) =>
           /\ Cardinality(IssuesAbout("missing-file", n)) = 1
           /\ \A i \in IssuesAbout("missing-file", n) :
                /\ DoctorOut.issues[i].severity = "error"
                /\ DoctorOut.issues[i].fix = "install"
           /\ IssuesAbout("hash-mismatch", n) = {}
           /\ ~DoctorOut.healthy

\* C24 witness: two entries, both files gone, and nothing else wrong: the two
\* errors are the only issues.
C24_Witness ==
  /\ Doctored /\ ~DoctorOut.threw
  /\ DoctorChecked = {"app", "style"}
  /\ \A n \in DoctorChecked : IssuesAbout("missing-file", n) # {}
  /\ Len(DoctorOut.issues) = 2

\* Every invocation so far has succeeded, the last of them an install of a
\* package whose file the user has edited since; every other installed file
\* is as it was written; the doctor has just audited the project.
EditedAfterInstall ==
  /\ Idle /\ Doctored /\ Audited = Persist
  /\ clean /\ prev.req.op = "install" /\ prev.status = "ok"
  /\ prev.req.name \in DOMAIN AuditedLock.packages
  /\ FileExists(files, AuditedLock.packages[prev.req.name].installed_to)
  /\ ~Intact(prev.req.name)
  /\ \A n \in DOMAIN AuditedLock.packages \ {prev.req.name} : Intact(n)

\* C23: after installPackage(P) has succeeded and P's installed file has been
\* edited on disk, runDoctor reports exactly one issue of severity warning,
\* the hash mismatch of P, no error, and healthy = TRUE.
C23_EditedFileWarns ==
  EditedAfterInstall =>
     /\ ~DoctorOut.threw
     /\ DoctorOut.issues = <<Issue("warning", "hash-mismatch", prev.req.name, "update")>>
     /\ ErrorIssues = {}
     /\ DoctorOut.healthy

\* C23 witness: app was installed with its dependencies, plans/app.md was
\* edited, and the doctor has run.
C23_Witness ==
  /\ EditedAfterInstall
  /\ prev.req.name = "app"
  /\ DOMAIN AuditedLock.packages = {"app", "base", "style"}
  /\ files[<<"plans", "app">>] = Edited(Content("app", V110, "static"))

\* C25: the fix the doctor suggests for a missing file works: when an entry's
\* file is missing and planmode install <name> is run (no version), the file
\* exists again afterwards and the next runDoctor no longer reports it missing.
C25_ReinstallRestoresFile ==
  [][(/\ Doctored /\ Audited = prev'.before
      /\ prev' # prev /\ prev'.status = "ok"
      /\ prev'.req.op = "install" /\ prev'.req.version = NoVersion
      /\ IssuesAbout("missing-file", prev'.req.name) # {})
     => LET name == prev'.req.name
            next == runDoctor(lockFile', claudeMd', files')
        IN /\ FileExists(files', AuditedLock.packages[name].installed_to)
           /\ ~next.threw
           /\ \A i \in 1..Len(next.issues) :
                ~(next.issues[i].about = "missing-file" /\ next.issues[i].name = name)]_vars

\* How often a piece of text occurs in a text.
Count(content, text) ==
  Cardinality({i \in 0..(Len(content) - Len(text)) :
                 SubSeq(content, i + 1, i + Len(text)) = text})

\* No reference line "- @plans/<name>.md" occurs twice in the document.
NoDuplicates(doc) ==
  \A n \in ImportNames : Count(doc.content, importLine(n)) <= 1

\* C26: addImport is idempotent: on every document, a second addImport(name)
\* leaves CLAUDE.md as the first left it; hence every addImport or
\* removeImport on a document without duplicates leaves a document in which
\* the reference line of each name occurs at most once.
C26_AddImportIdempotent ==
  [][/\ call'.fn = "addImport" =>
          addImport(claudeMd', call'.args[2]) = claudeMd'
     /\ (call'.fn \in {"addImport", "removeImport"} /\ NoDuplicates(claudeMd))
          => NoDuplicates(claudeMd')]_vars

\* C26 witness: addImport("app") has been called twice in a row on a document
\* that had no reference line of app; the second call changed nothing and the
\* line occurs once.
C26_Witness ==
  /\ call.fn = "addImport" /\ call.args[2] = "app" /\ nops = 2
  /\ call.args[1] = claudeMd
  /\ Count(claudeMd.content, importLine("app")) = 1
  /\ Includes(claudeMd.content, <<"# Notes">>)

\* The names a call of listImports would return, as a set.
ListedIn(doc) == {listImports(doc)[i] : i \in 1..Len(listImports(doc))}

\* C27: after addImport(name), whatever the document was (missing, without a
\* "# Planmode" section, with one, with any other content), listImports
\* contains name, CLAUDE.md exists, and every name listed before is listed.
C27_AddImportLists ==
  call.fn = "addImport" =>
     /\ call.out.exists
     /\ call.args[2] \in ListedIn(call.out)
     /\ ListedIn(call.args[1]) \subseteq ListedIn(call.out)

\* C28: removeImport(name) deletes the reference line of name and no other
\* entry: afterwards listImports does not contain name and lists the other
\* names in their previous order; without such a line the document is left
\* as it is, and a missing CLAUDE.md is not created.
C28_RemoveImport ==
  call.fn = "removeImport" =>
     LET doc == call.args[1]
         name == call.args[2]
         Other(n) == n # name
         IsLine(line) == Trim(line) = importLine(name)
     IN /\ name \notin ListedIn(call.out)
        /\ listImports(call.out) = SelectSeq(listImports(doc), Other)
        /\ (doc.exists /\ SelectSeq(SplitNL(doc.content), IsLine) = <<>>)
             => call.out = doc
        /\ ~doc.exists => ~call.out.exists

RECURSIVE IsSubseq(_, _)
\* a is b with some elements left out.
IsSubseq(a, b) ==
  IF a = <<>> THEN TRUE
  ELSE IF b = <<>> THEN FALSE
  ELSE IF Head(a) = Head(b) THEN IsSubseq(Tail(a), Tail(b))
  ELSE IsSubseq(a, Tail(b))

\* C29: addImport and removeImport leave unrelated content untouched: every
\* line other than the reference line of the name (and, when addImport found
\* no managed section, the section header it appends with its separator) is
\* unchanged and in the same order.
C29_UnrelatedUntouched ==
  call.fn \in {"addImport", "removeImport"} =>
     LET doc == call.args[1]
         name == call.args[2]
         before == IF doc.exists THEN SplitNL(doc.content) ELSE <<>>
         after == IF call.out.exists THEN SplitNL(call.out.content) ELSE <<>>
         Added(line) == line \in {importLine(name), PLANMODE_SECTION, <<>>}
         Unrelated(line) == ~Added(line)
         Kept(line) == Trim(line) # importLine(name)
     IN IF call.fn = "addImport"
        THEN /\ IsSubseq(before, after)
             /\ SelectSeq(after, Unrelated) = SelectSeq(before, Unrelated)
        ELSE /\ IsSubseq(after, before) \/ after = <<<<>>>>
             /\ SelectSeq(after, Kept) = SelectSeq(before, Kept)

RECURSIVE ManagedNames(_, _)
\* The names of the reference lines "- @plans/<name>.md" that stand in the
\* "# Planmode" section, in the order of the lines.
ManagedNames(lines, inSection) ==
  IF lines = <<>> THEN <<>>
  ELSE LET line == Head(lines) IN
       IF line # <<>> /\ line[1] \in {"# Planmode", "# Notes"}
       THEN ManagedNames(Tail(lines), line = PLANMODE_SECTION)
       ELSE IF inSection /\ \E n \in ImportNames : line = importLine(n)
       THEN <<line[4]>> \o ManagedNames(Tail(lines), inSection)
       ELSE ManagedNames(Tail(lines), inSection)

\* C30: listImports returns exactly the names of the reference lines written
\* in the managed format, in document order, ignoring unrelated lines and the
\* lines of other sections; [] when CLAUDE.md does not exist or holds no
\* reference line; and it leaves the document as it is.
C30_ListImports ==
  call.fn = "listImports" =>
     /\ call.out = (IF call.args[1].exists
                    THEN ManagedNames(SplitNL(call.args[1].content), FALSE) ELSE <<>>)
     /\ claudeMd = call.args[1]

\* --- the lockfile store
LockCall(fn) == call.fn = fn

Unreadable(file) == file.kind \in {"absent", "corrupt"}

\* C32: readLockfile never throws; on an absent or unparseable planmode.lock
\* it returns {lockfile_version: 1, packages: {}}, and getLockedVersion,
\* addToLockfile, removeFromLockfile and getDependents then behave as on a
\* project where nothing is installed.
C32_UnreadableIsEmpty ==
  /\ LockCall("readLockfile") =>
       /\ call.out # TypeError
       /\ Unreadable(call.args[1]) => call.out = EmptyLockfile
  /\ (LockCall("getLockedVersion") /\ Unreadable(call.args[1])) => call.out = NoEntry
  /\ (LockCall("getDependents") /\ Unreadable(call.args[1])) => call.out = {}
  /\ (LockCall("addToLockfile") /\ Unreadable(call.args[1])) =>
       /\ call.out = lockFile
       /\ call.out = writeLockfile([lockfile_version |-> 1,
                                    packages |-> [n \in {call.args[2]} |-> call.args[3]]])
  /\ (LockCall("removeFromLockfile") /\ Unreadable(call.args[1])) =>
       /\ call.out = lockFile
       /\ call.out = writeLockfile(EmptyLockfile)

C32_Witness ==
  /\ LockCall("addToLockfile")
  /\ call.args[1].kind = "corrupt"
  /\ {b[1] : b \in call.args[1].raw.blocks} = LockNames
  /\ call.args[2] = "app"

\* The entries recorded before and after the last call of the store.
EntriesBefore == readLockfile(call.args[1]).packages
EntriesAfter == readLockfile(lockFile).packages

\* planmode.lock does not hold a document without a packages key.
HoldsLockfile(file) == file.kind # "mapping"

LexGeq(v, w) ==
  \/ v[1] > w[1]
  \/ v[1] = w[1] /\ v[2] > w[2]
  \/ v[1] = w[1] /\ v[2] = w[2] /\ v[3] >= w[3]

\* C34: satisfies agrees with the constraint grammar: "X.Y.Z" matches only
\* X.Y.Z; "^X.Y.Z" matches a.b.c exactly when a = X and (b > Y or (b = Y and
\* c >= Z)); "~X.Y.Z" exactly when a = X, b = Y and c >= Z; ">=X.Y.Z" exactly
\* when (a, b, c) >= (X, Y, Z) lexicographically; "*" matches every version.
C34_SatisfiesGrammar ==
  call.fn = "satisfies" =>
    LET v == call.args[1]
        w == call.args[2].v
        prefix == call.args[2].prefix
    IN call.out =
         CASE prefix = "*" -> TRUE
           [] prefix = "" -> v = w
           [] prefix = "^" -> v[1] = w[1] /\ (v[2] > w[2] \/ (v[2] = w[2] /\ v[3] >= w[3]))
           [] prefix = "~" -> v[1] = w[1] /\ v[2] = w[2] /\ v[3] >= w[3]
           [] prefix = ">=" -> LexGeq(v, w)

C34_Witness ==
  /\ call.fn = "satisfies"
  /\ call.args[2].prefix = "~"
  /\ call.args[1][1] = call.args[2].v[1]
  /\ call.args[1][2] > call.args[2].v[2]
  /\ call.out = FALSE

\* C35: parseDepString splits on the last "@" and never on the "@" a scoped
\* name begins with: parseDepString(n + "@" + c) = (n, c) and
\* parseDepString(n) = (n, "*") for unscoped and scoped names n.
C35_ParseDepString ==
  call.fn = "parseDepString" =>
    \A n \in PackageNames :
      /\ call.args[1] = n => call.out = [name |-> JoinCh(n), range |-> Star]
      /\ \A c \in RangeStrings :
           call.args[1] = n \o <<Ch("@"), c>> => call.out = [name |-> JoinCh(n), range |-> c]

C35_Witness ==
  /\ call.fn = "parseDepString"
  /\ call.args[1] = <<Ch("@"), Ch("acme/app"), Ch("@"), RangeStr("^", <<1, 2, 0>>)>>
  /\ call.out = [name |-> "@acme/app", range |-> RangeStr("^", <<1, 2, 0>>)]

\* --- the order of the steps of one installation
\* The step of installPackage that follows the step at pc once it is done.
StepAfter(f) ==
  CASE f.pc = "conflict" -> "write"
    [] f.pc = "write" -> IF f.type = "plan" THEN "ledger-read" ELSE "lock-read"
    [] f.pc = "ledger-read" -> "ledger-write"
    [] f.pc = "ledger-write" -> "lock-read"
    [] f.pc = "lock-read" -> "lock-write"
    [] f.pc = "lock-write" -> "deps"
    [] OTHER -> "none"

\* The declared dependencies of the package a frame installs: the rules in
\* list order, then the plans in list order.
DeclaredInOrder(f) ==
  LET declared == f.manifest.dependencies.rules \o f.manifest.dependencies.plans
  IN [i \in 1..Len(declared) |-> parseDepString(declared[i]).name]

HighestMeeting(r, n, c) ==
  LET listed == {registry[n].versions[i] : i \in 1..Len(registry[n].versions)}
  IN /\ r \in listed
     /\ Meets(r, c)
     /\ \A v \in listed : Meets(v, c) => compareVersions(v, r) <= 0

\* C37: a dependency declared with a constraint is resolved against that
\* constraint only: it is installed again whatever the Lockfile records for
\* the package, with the highest version that meets its own constraint, and
\* the Lockfile then records that version, the last declaration processed
\* deciding the version the Lockfile ends with even when it does not meet the
\* constraint of another declaration.
C37_EdgeResolvedAlone ==
  [][\A p \in {1} :
       (stack[p] # <<>> /\ Top(p).kind = "install" /\ Top(p).isDep
          /\ Top(p).version # NoVersion) =>
         LET f == Top(p)
             depth == Len(stack[p])
         IN /\ f.pc = "locked" =>
                 (Len(stack'[p]) = depth /\ stack'[p][depth].pc = "resolve")
            /\ (f.pc = "resolve" /\ Len(stack'[p]) = depth) =>
                 HighestMeeting(stack'[p][depth].resolved, f.name, f.version)
            /\ f.pc = "lock-write" =>
                 /\ IsLocked(lockFile', f.name)
                 /\ getLockedVersion(lockFile', f.name).version = f.resolved
                 /\ HighestMeeting(f.resolved, f.name, f.version)]_vars

\* top has been installed: shared was installed as 1.0.0 for top and again as
\* 1.2.0 for mid, and the Lockfile ends with 1.2.0, which top's constraint
\* excludes.
C37_Witness ==
  /\ stack[1] = <<>>
  /\ result[1].status = "ok"
  /\ prev.req.name = "top"
  /\ prev.before.lock = NoLockFile
  /\ IsLocked(lockFile, "shared")
  /\ getLockedVersion(lockFile, "shared").version = V120
  /\ ~Meets(V120, parseDepString(registry["top"].manifests[V100].dependencies.rules[1]).range)
  /\ Meets(V120, parseDepString(registry["mid"].manifests[V100].dependencies.rules[1]).range)
  /\ files[getInstallPath("shared", "rule")] = Content("shared", V120, "static")

\* --- termination
\* Every dependency cycle reached from package n has a declaration without a
\* version constraint: no package reached from n depends on itself through
\* constrained declarations alone.
CyclesUnpinned(n) ==
  \A m \in Reach({n}, FALSE, Cardinality(DOMAIN registry)) : ~InCycle(m, TRUE)

\* C38: installPackage terminates on every dependency graph in which each
\* cycle has a declaration without a version constraint (every acyclic graph
\* among them), given that every fetch and every write succeeds.
C38_InstallTerminates ==
  (stack[1] # <<>> /\ CyclesUnpinned(obs[1].req.name))
    ~> (stack[1] = <<>> /\ result[1].status = "ok")

\* mixb has been installed: mixb declares mixa, mixa declares mixb@1.0.0,
\* mixb was installed a second time and its unconstrained declaration of mixa
\* was answered by the Lockfile.
C38_Witness ==
  /\ stack[1] = <<>>
  /\ result[1].status = "ok"
  /\ prev.req.name = "mixb" /\ prev.req.version = NoVersion
  /\ prev.before.lock = NoLockFile
  /\ InCycle("mixb", FALSE) /\ CyclesUnpinned("mixb")
  /\ IsLocked(lockFile, "mixa") /\ IsLocked(lockFile, "mixb")

\* --- updatePackage
\* listImports of the document returns name n.
Imports(doc, n) == \E i \in 1..Len(listImports(doc)) : listImports(doc)[i] = n

\* The installation updatePackage runs after the uninstall is under way.
UpdateInstalling(p) ==
  /\ Len(stack[p]) = 2
  /\ stack[p][1].kind = "update" /\ stack[p][1].pc = "done"
  /\ stack[p][2].kind = "install"

\* The failures of an installation before it writes anything.
InstallRefusals ==
  {"NetworkFailure", "PackageNotFound", "VersionNotFound", "InvalidManifest",
   "NoContent", "MissingVariable"}

\* C39: updatePackage uninstalls the old version before it installs the new
\* one, and when that installation fails (a fetch fails, the version is not
\* found, a required variable is missing) the package is left with no
\* Lockfile entry, no file and no Ledger entry: the old version is not put
\* back.
C39_UpdateNotAtomic ==
  [][\A p \in {1} :
       /\ (Running(p, "update", "install") /\ Len(stack'[p]) = Len(stack[p]) + 1) =>
            /\ ~IsLocked(lockFile, Top(p).name)
            /\ ~FileExists(files, Top(p).locked.installed_to)
            /\ Top(p).name \notin LedgerNames
       /\ (UpdateInstalling(p) /\ stack'[p] = <<>> /\ result'[p].status = "error"
             /\ result'[p].error \in InstallRefusals) =>
            /\ ~IsLocked(lockFile', stack[p][1].name)
            /\ ~FileExists(files', stack[p][1].locked.installed_to)
            /\ ~Imports(claudeMd', stack[p][1].name)
            /\ obs[p].before.lock # lockFile']_vars

\* The update of app has failed for its required variable: app, installed
\* when the update began, is recorded nowhere.
C39_Witness ==
  /\ stack[1] = <<>>
  /\ prev.req.op = "update" /\ prev.req.name = "app"
  /\ result[1].status = "error" /\ result[1].error = "MissingVariable"
  /\ IsLocked(prev.before.lock, "app")
  /\ FileExists(prev.before.files, getInstallPath("app", "plan"))
  /\ ~IsLocked(lockFile, "app")
  /\ ~FileExists(files, getInstallPath("app", "plan"))
  /\ "app" \notin LedgerNames

\* --- a dependency that fails
\* The step in which the installation of a dependency of process p throws.
DependencyFails(p) ==
  /\ Len(stack[p]) >= 2
  /\ Top(p).kind = "install" /\ Top(p).isDep
  /\ stack[p][1].kind = "install"
  /\ stack'[p] = <<>>
  /\ result'[p].status = "error"

\* The dependencies the frame below the top one declares after the one that
\* is being installed.
LaterSiblings(p) ==
  LET parent == stack[p][Len(stack[p]) - 1]
  IN {DeclaredInOrder(parent)[i] : i \in parent.depIdx..Len(DeclaredInOrder(parent))}

\* ... and before it.
EarlierSiblings(p) ==
  LET parent == stack[p][Len(stack[p]) - 1]
  IN {DeclaredInOrder(parent)[i] : i \in 1..(parent.depIdx - 2)}

\* After the step the package of frame f has its file, its Lockfile entry
\* and, a plan, its Ledger entry.
KeptAfter(f) ==
  /\ IsLocked(lockFile', f.name)
  /\ FileExists(files', f.installPath)
  /\ f.type = "plan" => Imports(claudeMd', f.name)

\* After the step package n has no file, no Lockfile entry, no Ledger entry.
NoneAfter(n) ==
  /\ ~IsLocked(lockFile', n)
  /\ \A path \in DOMAIN files' : path[2] # n
  /\ ~Imports(claudeMd', n)

====
